---- MODULE Spec2Model ----
(***************************************************************************)
(* Model of backend/ai_generator.py: AIGenerator.generate_response and the *)
(* tool-calling loop it drives (_run_tool_loop, _make_api_call,            *)
(* _execute_tools, _build_messages_with_tool_results,                      *)
(* _extract_text_response).                                                *)
(*                                                                         *)
(* The LLM client (client.messages.create) and the tool manager            *)
(* (tool_manager.execute_tool) are external calls: each either returns a   *)
(* value drawn from a bounded set or raises.  One run of generate_response *)
(* is cut at those external calls, so a state shows which request is in    *)
(* flight and which content block of the response is being executed.       *)
(***************************************************************************)
EXTENDS Integers, Sequences, FiniteSets, TLC

\* ------------------------------------------------------------------ bounds
\* Longest content-block list of one LLM response.
MaxBlocks == 2

\* Number of generate_response calls made on one AIGenerator instance.
MaxCalls == 2

\* ------------------------------------------------------- program constants
MAX_TOOL_ROUNDS == 2

SYSTEM_PROMPT == "SYSTEM_PROMPT"

\* Text put in front of the exception message by _execute_tools.
ErrorPrefix == "Tool execution error: "

\* ---------------------------------------------------------- Python values
\* Optional[...] arguments: None, or a value.
None == [none |-> TRUE, val |-> <<>>]
Some(v) == [none |-> FALSE, val |-> v]

\* Python truthiness of an Optional[List] argument: None and [] are falsy.
Truthy(o) == (~o.none) /\ (Len(o.val) > 0)

\* Optional[str] arguments.
NoneStr == [none |-> TRUE, val |-> ""]
SomeStr(v) == [none |-> FALSE, val |-> v]

\* Python truthiness of an Optional[str] argument: None and "" are falsy.
TruthyStr(o) == (~o.none) /\ (o.val # "")

\* ------------------------------------------------------------ input sets
ToolDefs == << [name |-> "search_course_content"], [name |-> "get_course_outline"] >>

\* Values of the tools argument: absent, an empty list, a list of definitions.
ToolsArgs == { None, Some(<<>>), Some(ToolDefs) }

\* Values of the tool_manager argument: absent, or a manager object.
ManagerArgs == { "None", "manager" }

Queries == { "q" }

Histories == { NoneStr }

\* An ordinary query and the empty one.
AllQueries == { "q", "" }

\* No history, an empty history, a history.
AllHistories == { NoneStr, SomeStr(""), SomeStr("h") }

TextBlocks == { [type |-> "text", text |-> t] : t \in { "a", "b" } }

ToolUseBlocks ==
    { [type |-> "tool_use", id |-> "id1", name |-> "search_course_content"],
      [type |-> "tool_use", id |-> "id2", name |-> "get_course_outline"] }

SeqsUpTo(S, n) == UNION { [1..k -> S] : k \in 0..n }

StopReasons == { "tool_use", "end_turn", "max_tokens" }

\* The responses an LLM may give: any stop reason with any list of at most
\* MaxBlocks blocks taken from a given set.
ResponsesOver(blocks) ==
    { [stop_reason |-> s, content |-> c] :
        s \in StopReasons, c \in SeqsUpTo(blocks, MaxBlocks) }

\* The responses to the requests of the tool loop: one text payload, two
\* tool_use blocks.
Responses ==
    ResponsesOver({ b \in TextBlocks : b.text = "a" } \cup ToolUseBlocks)

\* The responses to the request of the path without tools: that path has
\* one response only, so it is run with both text payloads.
NoToolsResponses == ResponsesOver(TextBlocks \cup ToolUseBlocks)

\* The responses of the runs checked for termination: one text payload, one
\* tool_use block.
FewResponses ==
    ResponsesOver({ b \in TextBlocks : b.text = "a" }
                  \cup { b \in ToolUseBlocks : b.id = "id1" })

\* What tool_manager.execute_tool does for one call: return a text, or raise
\* an exception e with str(e) = msg.
Outcomes ==
    { [kind |-> "ok", text |-> "result"], [kind |-> "raise", msg |-> "boom"] }

\* The tool objects a caller may register: two search tools, which declare
\* the same name, and an outline tool.
ToolObjects == { "search", "search_again", "outline" }

\* The name a tool object declares in its definition.
NameOf(o) == IF o = "outline" THEN "get_course_outline"
             ELSE "search_course_content"

\* The names execute_tool is called with: the declared ones and another.
ToolNames == { "search_course_content", "get_course_outline", "unknown_tool" }

\* The citation record a tool object adds when its execution retrieves
\* something.
SourceOf(o) == [title |-> o, url |-> "None"]

\* Most citation records one tool object holds.
MaxSources == 2

\* Largest round budget an instance is given in the runs over budgets.
MaxBudget == 3

\* No call made on the tool manager yet.  A call is kept with its
\* argument, the text or list it returned, whether it raised, the tool
\* object it ran and the number of records each registered tool held when
\* it was made.
NoCall ==
    [op |-> "none", name |-> "", text |-> "", list |-> <<>>,
     raised |-> FALSE, tool |-> "", held |-> <<>>]

NoResponse == [stop_reason |-> "none", content |-> <<>>]

VARIABLES
    pc,                \* position of the run inside generate_response
    base_params,       \* self.base_params
    self_MAX_TOOL_ROUNDS, \* self.MAX_TOOL_ROUNDS, the class attribute as read
    query,             \* argument query
    conversation_history, \* argument conversation_history
    system_content,    \* local system_content
    tools,             \* argument tools
    tool_manager,      \* argument tool_manager
    messages,          \* the list built by generate_response
    current_round,     \* local of _run_tool_loop
    current_messages,  \* local of _run_tool_loop
    response,          \* the most recent LLM response
    block_idx,         \* position of the for loop of _execute_tools
    tool_results,      \* local of _execute_tools
    inflight,          \* api_params of the request the client is serving
    sent,              \* message lists handed to the client in this run
    requests,          \* what the client received, one record per request
    received,          \* what the client answered, one record per response
    executed,          \* execute_tool calls made for the current response
    nexec,             \* number of execute_tool calls in this run
    nraised,           \* how many of them raised
    finished,          \* requests issued by each earlier call on this instance
    result,            \* the value generate_response returned
    manager_tools,     \* ToolManager.tools, in the order of the dict
    last_sources,      \* last_sources of every tool object
    last_call,         \* the latest call on the tool manager and its value
    latest,            \* the tool object registered last under each name
    cur,               \* the query whose run the run variables hold
    parked,            \* the run of the other query, while it does not move
    unread,            \* records each query's executions added since a reset
    sources            \* local sources of RAGSystem.query, for each query

\* The callers of generate_response.
callers == << cur, parked, unread, sources >>

\* The state that lives outside a run of generate_response.
outside == << manager_tools, last_sources, last_call, latest, callers >>

\* The attributes of the AIGenerator instance.
instance == << base_params, self_MAX_TOOL_ROUNDS >>

\* The state of a run of generate_response, and of the generator.
inside == << pc, instance, query, conversation_history, system_content,
             tools, tool_manager, messages, current_round, current_messages,
             response, block_idx, tool_results, inflight, sent, requests,
             received, executed, nexec, nraised, finished, result >>

vars == << outside, inside >>

args == << query, conversation_history, system_content, tools, tool_manager,
          messages >>

NoRequest == [none |-> TRUE]

NoResult == [returned |-> FALSE, text |-> ""]

\* The queries a RAGSystem handles at a time.
Queriers == { 1, 2 }

\* The locals of a call of generate_response that has not started.
IdleRun ==
    [pc |-> "idle", query |-> "", conversation_history |-> NoneStr,
     system_content |-> SYSTEM_PROMPT, tools |-> None, tool_manager |-> "None",
     messages |-> <<>>, current_round |-> 0, current_messages |-> <<>>,
     response |-> NoResponse, block_idx |-> 0, tool_results |-> <<>>,
     inflight |-> NoRequest, sent |-> <<>>, requests |-> <<>>,
     received |-> <<>>, executed |-> <<>>, nexec |-> 0, nraised |-> 0,
     result |-> NoResult]

\* ------------------------------------------------------- pure functions

\* Text extraction looking at the first block only.
ExtractFrom_FirstBlockOnly(content, i) ==
    IF Len(content) >= 1 /\ content[1].type = "text" THEN content[1].text
    ELSE ""

\* _extract_text_response: the text of the first block of type "text".
RECURSIVE ExtractFrom(_, _)
ExtractFrom(content, i) ==
    IF i > Len(content) THEN ""
    ELSE IF content[i].type = "text" THEN content[i].text
    ELSE ExtractFrom(content, i + 1)

_extract_text_response(resp) == ExtractFrom(resp.content, 1)

\* System content built at the top of generate_response.
BuildSystemContent(history) ==
    IF TruthyStr(history)
    THEN SYSTEM_PROMPT \o "\n\nPrevious conversation:\n" \o history.val
    ELSE SYSTEM_PROMPT

\* _make_api_call: the api_params dict handed to client.messages.create,
\* a new dict of every key of self.base_params with messages and system,
\* and with tools and tool_choice when tools are passed on.
_make_api_call(msgs, sys, tls, include_tools) ==
    IF Truthy(tls) /\ include_tools
    THEN [messages |-> msgs,
          system |-> sys,
          tools |-> tls.val,
          tool_choice |-> [type |-> "auto"]] @@ base_params
    ELSE [messages |-> msgs, system |-> sys] @@ base_params

\* The tool result, tagged with the name of the tool.
ToolResult_IdFromName(block, outcome) ==
    [type |-> "tool_result",
     tool_use_id |-> block.name,
     content |-> IF outcome.kind = "ok" THEN outcome.text
                 ELSE ErrorPrefix \o outcome.msg]

\* The tool result, the failure text being the bare exception message.
ToolResult_BareMessage(block, outcome) ==
    [type |-> "tool_result",
     tool_use_id |-> block.id,
     content |-> IF outcome.kind = "ok" THEN outcome.text ELSE outcome.msg]

\* The tool_result dict _execute_tools appends for one tool_use block.
ToolResult(block, outcome) ==
    [type |-> "tool_result",
     tool_use_id |-> block.id,
     content |-> IF outcome.kind = "ok" THEN outcome.text
                 ELSE ErrorPrefix \o outcome.msg]

\* The next message list, the tool results put before the assistant message.
BuildMessages_Swapped(msgs, assistant_response, results) ==
    Append(Append(msgs, [role |-> "user", content |-> results]),
           [role |-> "assistant", content |-> assistant_response.content])

\* The next message list, the tool results sent in the assistant's name.
BuildMessages_ResultsAsAssistant(msgs, assistant_response, results) ==
    Append(Append(msgs, [role |-> "assistant",
                         content |-> assistant_response.content]),
           [role |-> "assistant", content |-> results])

\* The next message list, the assistant message left out.
BuildMessages_NoAssistant(msgs, assistant_response, results) ==
    Append(msgs, [role |-> "user", content |-> results])

\* _build_messages_with_tool_results: a new list, the old one plus two.
_build_messages_with_tool_results(msgs, assistant_response, results) ==
    Append(Append(msgs, [role |-> "assistant",
                         content |-> assistant_response.content]),
           [role |-> "user", content |-> results])

\* What the client keeps of a request: everything but the message bodies.
Received(p) ==
    [nmsgs |-> Len(p.messages),
     params |-> [k \in (DOMAIN p) \ {"messages"} |-> p[k]]]

\* The tool_use blocks of a content list, in order.
IsToolUse(b) == b.type = "tool_use"

ToolUsesOf(content) == SelectSeq(content, IsToolUse)

\* What is kept of a response once the run is over: its stop reason, how
\* many tool_use blocks it had and whether it had a text block.
Answered(resp) ==
    [stop_reason |-> resp.stop_reason,
     n_tool_use |-> Len(ToolUsesOf(resp.content)),
     has_text |-> \E i \in 1..Len(resp.content) :
                     resp.content[i].type = "text"]

\* The loop condition, off by one: a third round is allowed.
LoopCondition_OffByOne == current_round <= self_MAX_TOOL_ROUNDS

\* The loop condition, one round short: the last permitted round is not run.
LoopCondition_OneRound == current_round < self_MAX_TOOL_ROUNDS - 1

\* The condition of the while loop, with the budget of the class whatever
\* the attribute of the instance says.
LoopCondition_ClassBudget == current_round < MAX_TOOL_ROUNDS

\* The condition of the while loop of _run_tool_loop.
LoopCondition == current_round < self_MAX_TOOL_ROUNDS

\* ------------------------------------------------ the tool manager
\* The position of the tool registered under a name, 0 when there is none.
IndexOfName(name) ==
    IF \E i \in 1..Len(manager_tools) : NameOf(manager_tools[i]) = name
    THEN CHOOSE i \in 1..Len(manager_tools) : NameOf(manager_tools[i]) = name
    ELSE 0

IsRegistered(name) == IndexOfName(name) # 0

\* self.tools[name]
ToolFor(name) == manager_tools[IndexOfName(name)]

\* The number of records each registered tool holds, in dict order.
Held == [i \in 1..Len(manager_tools) |-> Len(last_sources[manager_tools[i]])]

Call(op, name, text, list, raised, tool) ==
    [op |-> op, name |-> name, text |-> text, list |-> list,
     raised |-> raised, tool |-> tool, held |-> Held]

\* The dict after a registration that leaves a name already taken alone.
ToolsAfterRegister_KeepsFirst(o) ==
    IF IsRegistered(NameOf(o)) THEN manager_tools
    ELSE Append(manager_tools, o)

\* self.tools[tool_name] = tool: a new key goes last, a key already there
\* keeps its place and takes the new tool.
ToolsAfterRegister(o) ==
    IF IsRegistered(NameOf(o))
    THEN [manager_tools EXCEPT ![IndexOfName(NameOf(o))] = o]
    ELSE Append(manager_tools, o)

\* An unknown name answered with an exception.
ManagerOutcome_RaisesOnUnknown(name, outcome) ==
    IF IsRegistered(name) THEN outcome
    ELSE [kind |-> "raise", msg |-> name]

\* What execute_tool gives its caller: the outcome of the tool registered
\* under the name, or the error text when there is none.
ManagerOutcome(name, outcome) ==
    IF IsRegistered(name) THEN outcome
    ELSE [kind |-> "ok", text |-> "Tool '" \o name \o "' not found"]

\* The tools' records after execute_tool: a tool that ran and retrieved
\* something has one record more.
SourcesAfterExecute(name, outcome, retrieved) ==
    IF IsRegistered(name) /\ outcome.kind = "ok" /\ retrieved
    THEN [last_sources EXCEPT
             ![ToolFor(name)] = Append(@, SourceOf(ToolFor(name)))]
    ELSE last_sources

\* execute_tool can be followed in the model: the tool has room for what it
\* retrieves.
HasRoom(name, outcome, retrieved) ==
    (IsRegistered(name) /\ outcome.kind = "ok" /\ retrieved) =>
        Len(last_sources[ToolFor(name)]) < MaxSources

RECURSIVE SourcesFrom(_)
SourcesFrom(i) ==
    IF i > Len(manager_tools) THEN <<>>
    ELSE last_sources[manager_tools[i]] \o SourcesFrom(i + 1)

RECURSIVE FirstNonEmptyFrom(_)
FirstNonEmptyFrom(i) ==
    IF i > Len(manager_tools) THEN <<>>
    ELSE IF last_sources[manager_tools[i]] # <<>>
         THEN last_sources[manager_tools[i]]
         ELSE FirstNonEmptyFrom(i + 1)

\* The records of the first tool that holds any.
GetLastSources_FirstNonEmpty == FirstNonEmptyFrom(1)

\* get_last_sources: the records of every registered tool, one tool after
\* the other in the order of registration.
GetLastSources == SourcesFrom(1)

\* The records after a reset that clears the first registered tool only.
SourcesAfterReset_FirstOnly ==
    [o \in ToolObjects |->
        IF manager_tools # <<>> /\ o = manager_tools[1] THEN <<>>
        ELSE last_sources[o]]

\* reset_sources: every registered tool's list is emptied.
SourcesAfterReset ==
    [o \in ToolObjects |->
        IF \E i \in 1..Len(manager_tools) : manager_tools[i] = o THEN <<>>
        ELSE last_sources[o]]

\* get_tool_definitions: one definition per tool, in dict order.
GetToolDefinitions ==
    [i \in 1..Len(manager_tools) |-> [name |-> NameOf(manager_tools[i])]]

\* ---------------------------------------------------------------- Init
InitWith(budget) ==
    /\ pc = "idle"
    /\ base_params = [model |-> "claude-model", temperature |-> 0,
                      max_tokens |-> 800]
    /\ query = ""
    /\ conversation_history = NoneStr
    /\ system_content = SYSTEM_PROMPT
    /\ tools = None
    /\ tool_manager = "None"
    /\ messages = <<>>
    /\ current_round = 0
    /\ current_messages = <<>>
    /\ response = NoResponse
    /\ block_idx = 0
    /\ tool_results = <<>>
    /\ inflight = NoRequest
    /\ sent = <<>>
    /\ requests = <<>>
    /\ received = <<>>
    /\ executed = <<>>
    /\ nexec = 0
    /\ nraised = 0
    /\ finished = <<>>
    /\ result = NoResult
    /\ manager_tools = <<>>
    /\ last_sources = [o \in ToolObjects |-> <<>>]
    /\ last_call = NoCall
    /\ latest = [n \in ToolNames |-> ""]
    /\ self_MAX_TOOL_ROUNDS = budget
    /\ cur = 1
    /\ parked = IdleRun
    /\ unread = [r \in Queriers |-> 0]
    /\ sources = [r \in Queriers |-> <<>>]

\* The state after construction: the budget is the class attribute.
Init == InitWith(MAX_TOOL_ROUNDS)

\* -------------------------------------------------------------- actions

\* generate_response testing "tools is not None": an empty list of tools
\* enters the tool loop.
GenerateResponse_IsNotNone(q, history, tls, tm) ==
    /\ pc = "idle"
    /\ query' = q
    /\ conversation_history' = history
    /\ system_content' = BuildSystemContent(history)
    /\ tools' = tls
    /\ tool_manager' = tm
    /\ messages' = << [role |-> "user", content |-> q] >>
    /\ IF ~tls.none
       THEN /\ pc' = "loop"
            /\ current_round' = 0
            /\ current_messages' = << [role |-> "user", content |-> q] >>
       ELSE /\ pc' = "notools"
            /\ UNCHANGED << current_round, current_messages >>
    /\ UNCHANGED << outside, instance, finished, response, block_idx, tool_results, inflight,
                    sent, requests, received, executed, nexec, nraised, result >>

\* generate_response keeping the query of the earlier call in the list.
GenerateResponse_KeepsEarlierQuery(q, history, tls, tm) ==
    /\ pc = "idle"
    /\ query' = q
    /\ conversation_history' = history
    /\ system_content' = BuildSystemContent(history)
    /\ tools' = tls
    /\ tool_manager' = tm
    /\ messages' =
         IF finished # <<>>
         THEN << [role |-> "user", content |-> query],
                 [role |-> "user", content |-> q] >>
         ELSE << [role |-> "user", content |-> q] >>
    /\ IF Truthy(tls)
       THEN /\ pc' = "loop"
            /\ current_round' = 0
            /\ current_messages' = messages'
       ELSE /\ pc' = "notools"
            /\ UNCHANGED << current_round, current_messages >>
    /\ UNCHANGED << outside, instance, finished, response, block_idx,
                    tool_results, inflight, sent, requests, received,
                    executed, nexec, nraised, result >>

\* generate_response putting the conversation history into the message list.
GenerateResponse_HistoryInMessages(q, history, tls, tm) ==
    /\ pc = "idle"
    /\ query' = q
    /\ conversation_history' = history
    /\ system_content' = BuildSystemContent(history)
    /\ tools' = tls
    /\ tool_manager' = tm
    /\ messages' =
         IF TruthyStr(history)
         THEN << [role |-> "user", content |-> history.val],
                 [role |-> "user", content |-> q] >>
         ELSE << [role |-> "user", content |-> q] >>
    /\ IF Truthy(tls)
       THEN /\ pc' = "loop"
            /\ current_round' = 0
            /\ current_messages' = messages'
       ELSE /\ pc' = "notools"
            /\ UNCHANGED << current_round, current_messages >>
    /\ UNCHANGED << outside, instance, finished, response, block_idx,
                    tool_results, inflight, sent, requests, received,
                    executed, nexec, nraised, result >>

\* generate_response up to its first LLM request; with tools it enters
\* _run_tool_loop, which copies the message list.
GenerateResponse(q, history, tls, tm) ==
    /\ pc = "idle"
    /\ query' = q
    /\ conversation_history' = history
    /\ system_content' = BuildSystemContent(history)
    /\ tools' = tls
    /\ tool_manager' = tm
    /\ messages' = << [role |-> "user", content |-> q] >>
    /\ IF Truthy(tls)
       THEN /\ pc' = "loop"
            /\ current_round' = 0
            /\ current_messages' = << [role |-> "user", content |-> q] >>
       ELSE /\ pc' = "notools"
            /\ UNCHANGED << current_round, current_messages >>
    /\ UNCHANGED << outside, instance, finished, response, block_idx, tool_results, inflight,
                    sent, requests, received, executed, nexec, nraised, result >>

\* The client takes a request.
Send(p) ==
    /\ inflight' = p
    /\ sent' = Append(sent, p.messages)
    /\ requests' = Append(requests, Received(p))

\* generate_response returns text: its frame and that of the loop are gone.
Return(text) ==
    /\ pc' = "done"
    /\ result' = [returned |-> TRUE, text |-> text]
    /\ inflight' = NoRequest
    /\ sent' = <<>>
    /\ messages' = <<>>
    /\ current_messages' = <<>>
    /\ current_round' = 0
    /\ block_idx' = 0
    /\ tool_results' = <<>>
    /\ executed' = <<>>

\* No tools: the single request of generate_response.
SendNoToolsRequest ==
    /\ pc = "notools"
    /\ Send(_make_api_call(messages, system_content, None, TRUE))
    /\ pc' = "await_notools"
    /\ UNCHANGED << outside, instance, finished, args, current_round, current_messages,
                    response, block_idx, tool_results, received, executed,
                    nexec, nraised, result >>

ReceiveNoToolsResponse(resp) ==
    /\ pc = "await_notools"
    /\ response' = resp
    /\ received' = Append(received, Answered(resp))
    /\ Return(_extract_text_response(resp))
    /\ UNCHANGED << outside, instance, finished, query, conversation_history, system_content, tools, tool_manager,
                    requests, nexec, nraised >>

\* The request of one round, tools and tool_choice written into
\* self.base_params itself instead of into a new dict.
SendLoopRequest_IntoBaseParams ==
    /\ pc = "loop"
    /\ LoopCondition
    /\ base_params' = [tools |-> tools.val,
                       tool_choice |-> [type |-> "auto"]] @@ base_params
    /\ Send([messages |-> current_messages,
             system |-> system_content] @@ base_params')
    /\ pc' = "await_loop"
    /\ UNCHANGED << outside, self_MAX_TOOL_ROUNDS, finished, args,
                    current_round, current_messages, response, block_idx,
                    tool_results, received, executed, nexec, nraised,
                    result >>

\* The request of one round, the tools passed on in the first round only.
SendLoopRequest_FirstRoundOnly ==
    /\ pc = "loop"
    /\ LoopCondition
    /\ Send(_make_api_call(current_messages, system_content, tools,
                           current_round = 0))
    /\ pc' = "await_loop"
    /\ UNCHANGED << outside, instance, finished, args, current_round,
                    current_messages, response, block_idx, tool_results,
                    received, executed, nexec, nraised, result >>

\* while current_round < MAX_TOOL_ROUNDS: the request of one round.
SendLoopRequest ==
    /\ pc = "loop"
    /\ LoopCondition
    /\ Send(_make_api_call(current_messages, system_content, tools, TRUE))
    /\ pc' = "await_loop"
    /\ UNCHANGED << outside, instance, finished, args, current_round, current_messages,
                    response, block_idx, tool_results, received, executed,
                    nexec, nraised, result >>

\* The response of a round, the loop going by the blocks of the response
\* instead of its stop reason.
ReceiveLoopResponse_ByBlocks(resp) ==
    /\ pc = "await_loop"
    /\ response' = resp
    /\ received' = Append(received, Answered(resp))
    /\ IF Len(ToolUsesOf(resp.content)) = 0 \/ tool_manager = "None"
       THEN /\ Return(_extract_text_response(resp))
            /\ UNCHANGED << outside, instance, finished, query, conversation_history, system_content, tools,
                            tool_manager, requests, nexec, nraised >>
       ELSE /\ pc' = "exec"
            /\ block_idx' = 1
            /\ tool_results' = <<>>
            /\ executed' = <<>>
            /\ inflight' = NoRequest
            /\ UNCHANGED << outside, instance, finished, args, current_round,
                            current_messages, sent, requests, nexec, nraised, result >>

\* The response of a round, the test for a missing tool_manager left out.
ReceiveLoopResponse_NoManagerCheck(resp) ==
    /\ pc = "await_loop"
    /\ response' = resp
    /\ received' = Append(received, Answered(resp))
    /\ IF resp.stop_reason # "tool_use"
       THEN /\ Return(_extract_text_response(resp))
            /\ UNCHANGED << outside, instance, finished, query,
                            conversation_history, system_content, tools,
                            tool_manager, requests, nexec, nraised >>
       ELSE /\ pc' = "exec"
            /\ block_idx' = 1
            /\ tool_results' = <<>>
            /\ executed' = <<>>
            /\ inflight' = NoRequest
            /\ UNCHANGED << outside, instance, finished, args, current_round,
                            current_messages, sent, requests, nexec, nraised,
                            result >>

\* The response of a round: return its text, or start executing its tools.
ReceiveLoopResponse(resp) ==
    /\ pc = "await_loop"
    /\ response' = resp
    /\ received' = Append(received, Answered(resp))
    /\ IF resp.stop_reason # "tool_use" \/ tool_manager = "None"
       THEN /\ Return(_extract_text_response(resp))
            /\ UNCHANGED << outside, instance, finished, query, conversation_history, system_content, tools,
                            tool_manager, requests, nexec, nraised >>
       ELSE /\ pc' = "exec"
            /\ block_idx' = 1
            /\ tool_results' = <<>>
            /\ executed' = <<>>
            /\ inflight' = NoRequest
            /\ UNCHANGED << outside, instance, finished, args, current_round,
                            current_messages, sent, requests, nexec, nraised, result >>

\* _execute_tools returning from inside its for loop, after the first
\* tool_use block.
ExecuteToolUse_FirstOnly(outcome) ==
    /\ pc = "exec"
    /\ block_idx <= Len(response.content)
    /\ response.content[block_idx].type = "tool_use"
    /\ tool_results' = Append(tool_results,
                              ToolResult(response.content[block_idx], outcome))
    /\ executed' = Append(executed, [idx |-> block_idx, outcome |-> outcome])
    /\ nexec' = nexec + 1
    /\ nraised' = IF outcome.kind = "raise" THEN nraised + 1 ELSE nraised
    /\ block_idx' = Len(response.content) + 1
    /\ UNCHANGED << pc, outside, instance, finished, args, current_round, current_messages,
                    response, inflight, sent, requests, received, result >>

\* _execute_tools appending no result for a call that raised.
ExecuteToolUse_DropFailed(outcome) ==
    /\ pc = "exec"
    /\ block_idx <= Len(response.content)
    /\ response.content[block_idx].type = "tool_use"
    /\ tool_results' =
         IF outcome.kind = "ok"
         THEN Append(tool_results,
                     ToolResult(response.content[block_idx], outcome))
         ELSE tool_results
    /\ executed' = Append(executed, [idx |-> block_idx, outcome |-> outcome])
    /\ nexec' = nexec + 1
    /\ nraised' = IF outcome.kind = "raise" THEN nraised + 1 ELSE nraised
    /\ block_idx' = block_idx + 1
    /\ UNCHANGED << pc, outside, instance, finished, args, current_round, current_messages,
                    response, inflight, sent, requests, received, result >>

\* _execute_tools leaving its for loop at the first call that raised.
ExecuteToolUse_StopOnFailure(outcome) ==
    /\ pc = "exec"
    /\ block_idx <= Len(response.content)
    /\ response.content[block_idx].type = "tool_use"
    /\ tool_results' = Append(tool_results,
                              ToolResult(response.content[block_idx], outcome))
    /\ executed' = Append(executed, [idx |-> block_idx, outcome |-> outcome])
    /\ nexec' = nexec + 1
    /\ nraised' = IF outcome.kind = "raise" THEN nraised + 1 ELSE nraised
    /\ block_idx' = IF outcome.kind = "ok" THEN block_idx + 1
                    ELSE Len(response.content) + 1
    /\ UNCHANGED << pc, outside, instance, finished, args, current_round, current_messages,
                    response, inflight, sent, requests, received, result >>

\* _execute_tools without its try/except: what execute_tool raises leaves
\* generate_response.
ExecuteToolUse_Propagates(outcome) ==
    /\ pc = "exec"
    /\ block_idx <= Len(response.content)
    /\ response.content[block_idx].type = "tool_use"
    /\ nexec' = nexec + 1
    /\ nraised' = IF outcome.kind = "raise" THEN nraised + 1 ELSE nraised
    /\ IF outcome.kind = "ok"
       THEN /\ tool_results' =
                 Append(tool_results,
                        ToolResult(response.content[block_idx], outcome))
            /\ executed' = Append(executed,
                                  [idx |-> block_idx, outcome |-> outcome])
            /\ block_idx' = block_idx + 1
            /\ UNCHANGED << pc, messages, current_round, current_messages,
                            sent >>
       ELSE /\ pc' = "error"
            /\ tool_results' = <<>>
            /\ executed' = <<>>
            /\ block_idx' = 0
            /\ messages' = <<>>
            /\ current_round' = 0
            /\ current_messages' = <<>>
            /\ sent' = <<>>
    /\ UNCHANGED << outside, instance, finished, query, conversation_history,
                    system_content, tools, tool_manager, response, inflight,
                    requests, received, result >>

\* _execute_tools, one block of type tool_use: call the manager, keep what
\* it returns or the text of what it raises.
ExecuteBlock(outcome) ==
    /\ pc = "exec"
    /\ block_idx <= Len(response.content)
    /\ response.content[block_idx].type = "tool_use"
    /\ tool_results' = Append(tool_results,
                              ToolResult(response.content[block_idx], outcome))
    /\ executed' = Append(executed, [idx |-> block_idx, outcome |-> outcome])
    /\ nexec' = nexec + 1
    /\ nraised' = IF outcome.kind = "raise" THEN nraised + 1 ELSE nraised
    /\ block_idx' = block_idx + 1
    /\ UNCHANGED << pc, instance, finished, args, current_round, current_messages,
                    response, inflight, sent, requests, received, result >>

\* The same with a tool manager that is a stand-in: it returns or raises,
\* and that is all it does.
ExecuteToolUse(outcome) ==
    /\ ExecuteBlock(outcome)
    /\ UNCHANGED outside

\* The same with a ToolManager: the call goes to the tool registered under
\* the name of the block, whose execution may retrieve something.
ExecuteRegisteredTool(outcome, retrieved) ==
    /\ pc = "exec"
    /\ block_idx <= Len(response.content)
    /\ response.content[block_idx].type = "tool_use"
    /\ LET name == response.content[block_idx].name
           got == ManagerOutcome(name, outcome) IN
       /\ HasRoom(name, outcome, retrieved)
       /\ ExecuteBlock(got)
       /\ last_sources' = SourcesAfterExecute(name, outcome, retrieved)
       /\ last_call' =
              Call("execute_tool", name,
                   IF got.kind = "ok" THEN got.text ELSE got.msg, <<>>,
                   got.kind = "raise",
                   IF IsRegistered(name) THEN ToolFor(name) ELSE "")
    /\ unread' = [unread EXCEPT ![cur] =
                      IF last_sources' # last_sources THEN @ + 1 ELSE @]
    /\ UNCHANGED << manager_tools, latest, cur, parked, sources >>

\* _execute_tools, a block of any other type: nothing to do.
SkipBlock ==
    /\ pc = "exec"
    /\ block_idx <= Len(response.content)
    /\ response.content[block_idx].type # "tool_use"
    /\ block_idx' = block_idx + 1
    /\ UNCHANGED << pc, outside, instance, finished, args, current_round, current_messages,
                    response, tool_results, inflight, sent, requests, received,
                    executed, nexec, nraised, result >>

\* The loop going on to the next request without waiting for the remaining
\* blocks of the response to be executed.
FinishRound_Early ==
    /\ pc = "exec"
    /\ current_messages' =
         _build_messages_with_tool_results(current_messages, response,
                                           tool_results)
    /\ current_round' = current_round + 1
    /\ pc' = "loop"
    /\ UNCHANGED << outside, instance, finished, args, response, block_idx,
                    tool_results, inflight, sent, requests, received,
                    executed, nexec, nraised, result >>

\* The loop counting the tool calls of the round instead of the round.
FinishRound_CountsBlocks ==
    /\ pc = "exec"
    /\ block_idx > Len(response.content)
    /\ current_messages' =
         _build_messages_with_tool_results(current_messages, response,
                                           tool_results)
    /\ current_round' = current_round + Len(ToolUsesOf(response.content))
    /\ pc' = "loop"
    /\ UNCHANGED << outside, instance, finished, args, response, block_idx,
                    tool_results, inflight, sent, requests, received,
                    executed, nexec, nraised, result >>

\* The loop ending the run with the text of the response when no tool gave
\* a result, instead of counting the round and asking again.
FinishRound_ReturnsWhenEmpty ==
    /\ pc = "exec"
    /\ block_idx > Len(response.content)
    /\ IF tool_results = <<>>
       THEN /\ Return(_extract_text_response(response))
            /\ UNCHANGED << outside, instance, finished, query,
                            conversation_history, system_content, tools,
                            tool_manager, response, requests, received,
                            nexec, nraised >>
       ELSE /\ current_messages' =
                 _build_messages_with_tool_results(current_messages,
                                                   response, tool_results)
            /\ current_round' = current_round + 1
            /\ pc' = "loop"
            /\ UNCHANGED << outside, instance, finished, args, response,
                            block_idx, tool_results, inflight, sent,
                            requests, received, executed, nexec, nraised,
                            result >>

\* The loop appending the two messages of the round to the list it has, the
\* one already handed to the last request, instead of building a new list.
FinishRound_InPlace ==
    /\ pc = "exec"
    /\ block_idx > Len(response.content)
    /\ current_messages' =
         _build_messages_with_tool_results(current_messages, response,
                                           tool_results)
    /\ sent' = [sent EXCEPT ![Len(sent)] = current_messages']
    /\ current_round' = current_round + 1
    /\ pc' = "loop"
    /\ UNCHANGED << outside, instance, finished, args, response, block_idx,
                    tool_results, inflight, requests, received,
                    executed, nexec, nraised, result >>

\* _execute_tools returns; the loop builds the next message list and counts
\* the round.
FinishRound ==
    /\ pc = "exec"
    /\ block_idx > Len(response.content)
    /\ current_messages' =
         _build_messages_with_tool_results(current_messages, response,
                                           tool_results)
    /\ current_round' = current_round + 1
    /\ pc' = "loop"
    /\ UNCHANGED << outside, instance, finished, args, response, block_idx, tool_results,
                    inflight, sent, requests, received, executed, nexec, nraised, result >>

\* The request after the last round, the tools still passed on.
SendFinalRequest_WithTools ==
    /\ pc = "loop"
    /\ ~LoopCondition
    /\ Send(_make_api_call(current_messages, system_content, tools, TRUE))
    /\ pc' = "await_final"
    /\ UNCHANGED << outside, instance, finished, args, current_round, current_messages,
                    response, block_idx, tool_results, received, executed,
                    nexec, nraised, result >>

\* Max rounds reached: the request without tools.
SendFinalRequest ==
    /\ pc = "loop"
    /\ ~LoopCondition
    /\ Send(_make_api_call(current_messages, system_content, None, FALSE))
    /\ pc' = "await_final"
    /\ UNCHANGED << outside, instance, finished, args, current_round, current_messages,
                    response, block_idx, tool_results, received, executed,
                    nexec, nraised, result >>

\* The response to the request without tools, with the text of the last
\* tool round returned when that response has no text block of its own.
ReceiveFinalResponse_FallsBackToEarlierText(resp) ==
    /\ pc = "await_final"
    /\ response' = resp
    /\ received' = Append(received, Answered(resp))
    /\ Return(IF Answered(resp).has_text
              THEN _extract_text_response(resp)
              ELSE ExtractFrom(
                     current_messages[Len(current_messages) - 1].content, 1))
    /\ UNCHANGED << outside, instance, finished, query,
                    conversation_history, system_content, tools,
                    tool_manager, requests, nexec, nraised >>

\* The response to the request without tools, handled like that of a round:
\* its tool_use blocks are executed and the request is made again.
ReceiveFinalResponse_ExecutesTools(resp) ==
    /\ pc = "await_final"
    /\ response' = resp
    /\ received' = Append(received, Answered(resp))
    /\ IF resp.stop_reason # "tool_use"
       THEN /\ Return(_extract_text_response(resp))
            /\ UNCHANGED << outside, instance, finished, query,
                            conversation_history, system_content, tools,
                            tool_manager, requests, nexec, nraised >>
       ELSE /\ pc' = "exec"
            /\ block_idx' = 1
            /\ tool_results' = <<>>
            /\ executed' = <<>>
            /\ inflight' = NoRequest
            /\ UNCHANGED << outside, instance, finished, args, current_round,
                            current_messages, sent, requests, nexec, nraised,
                            result >>

ReceiveFinalResponse(resp) ==
    /\ pc = "await_final"
    /\ response' = resp
    /\ received' = Append(received, Answered(resp))
    /\ Return(_extract_text_response(resp))
    /\ UNCHANGED << outside, instance, finished, query, conversation_history, system_content, tools, tool_manager,
                    requests, nexec, nraised >>

\* client.messages.create raises and generate_response answers with an error
\* text instead of letting the exception through.
ApiCallRaises_Swallowed ==
    /\ pc \in { "await_notools", "await_loop", "await_final" }
    /\ Return(ErrorPrefix \o "boom")
    /\ UNCHANGED << outside, instance, finished, query, conversation_history,
                    system_content, tools, tool_manager, response, requests,
                    received, nexec, nraised >>

\* client.messages.create raises: nothing in generate_response catches it.
ApiCallRaises ==
    /\ pc \in { "await_notools", "await_loop", "await_final" }
    /\ pc' = "error"
    /\ inflight' = NoRequest
    /\ sent' = <<>>
    /\ messages' = <<>>
    /\ current_messages' = <<>>
    /\ current_round' = 0
    /\ block_idx' = 0
    /\ tool_results' = <<>>
    /\ executed' = <<>>
    /\ UNCHANGED << outside, instance, finished, query, conversation_history, system_content, tools, tool_manager,
                    response, requests, received, nexec, nraised, result >>

\* The steps of a run whose query is in Qs, whose history is in Hs, whose
\* loop responses are in Rs and whose response on the path without tools is
\* in NRs.
NextFor(Qs, Hs, Rs, NRs) ==
    \/ \E q \in Qs, h \in Hs, t \in ToolsArgs, m \in ManagerArgs :
         GenerateResponse(q, h, t, m)
    \/ SendNoToolsRequest
    \/ \E r \in NRs : ReceiveNoToolsResponse(r)
    \/ SendLoopRequest
    \/ \E r \in Rs : ReceiveLoopResponse(r)
    \/ \E o \in Outcomes : ExecuteToolUse(o)
    \/ SkipBlock
    \/ FinishRound
    \/ SendFinalRequest
    \/ \E r \in Rs : ReceiveFinalResponse(r)
    \/ ApiCallRaises

\* The steps of a run with the one query and the one history of Queries
\* and Histories.
NextOver(Rs, NRs) == NextFor(Queries, Histories, Rs, NRs)

Next == NextOver(Responses, NoToolsResponses)

Spec == Init /\ [][Next]_vars

\* Runs checked for termination.  generate_response is sequential code and
\* every external call comes back, with a value or with an exception, so a
\* step that can be taken is taken.
FairNext == NextOver(FewResponses, FewResponses)

FairSpec == Init /\ [][FairNext]_vars /\ WF_vars(FairNext)

\* Runs over every kind of query and of conversation history.
InputNext == NextFor(AllQueries, AllHistories, FewResponses, FewResponses)

InputSpec == Init /\ [][InputNext]_vars

\* The caller calls generate_response again on the same instance, after the
\* earlier call returned or raised: only self.base_params is left of it.
\* The number of requests of the earlier call is kept for the record.
CallerAsksAgain ==
    /\ pc \in { "done", "error" }
    /\ Len(finished) < MaxCalls - 1
    /\ pc' = "idle"
    /\ finished' = Append(finished, Len(requests))
    /\ requests' = <<>>
    /\ received' = <<>>
    /\ nexec' = 0
    /\ nraised' = 0
    /\ response' = NoResponse
    /\ result' = NoResult
    /\ UNCHANGED << outside, instance, args, current_round, current_messages,
                    block_idx, tool_results, inflight, sent, executed >>

\* Up to MaxCalls calls, one after the other, on one instance.
CallsNext ==
    \/ NextFor(AllQueries, Histories, FewResponses, FewResponses)
    \/ CallerAsksAgain

CallsSpec == Init /\ [][CallsNext]_vars

\* ------------------------------------------- runs over round budgets
\* The while loop reads self.MAX_TOOL_ROUNDS, so a subclass or an instance
\* that sets the attribute runs the same loop with another budget: the
\* instance is given any budget from 0 to MaxBudget.
BudgetInit == \E n \in 0..MaxBudget : InitWith(n)

\* The responses of the runs over budgets: tool requests with no block,
\* with one tool_use block and with a text before it, and a text that ends
\* the turn.
BudgetResponses ==
    LET text == [type |-> "text", text |-> "a"] IN
    { [stop_reason |-> "tool_use", content |-> <<>>],
      [stop_reason |-> "end_turn", content |-> << text >>] }
    \cup { [stop_reason |-> "tool_use", content |-> << b >>] :
             b \in ToolUseBlocks }
    \cup { [stop_reason |-> "tool_use", content |-> << text, b >>] :
             b \in { u \in ToolUseBlocks : u.id = "id1" } }

BudgetNext == NextOver(BudgetResponses, BudgetResponses)

BudgetSpec == BudgetInit /\ [][BudgetNext]_vars

\* ------------------------------------------- runs with a ToolManager
\* The tool manager the runs are given: the search tool is registered, the
\* outline tool is not.
ManagedInit ==
    /\ pc = "idle"
    /\ base_params = [model |-> "claude-model", temperature |-> 0,
                      max_tokens |-> 800]
    /\ query = ""
    /\ conversation_history = NoneStr
    /\ system_content = SYSTEM_PROMPT
    /\ tools = None
    /\ tool_manager = "None"
    /\ messages = <<>>
    /\ current_round = 0
    /\ current_messages = <<>>
    /\ response = NoResponse
    /\ block_idx = 0
    /\ tool_results = <<>>
    /\ inflight = NoRequest
    /\ sent = <<>>
    /\ requests = <<>>
    /\ received = <<>>
    /\ executed = <<>>
    /\ nexec = 0
    /\ nraised = 0
    /\ finished = <<>>
    /\ result = NoResult
    /\ manager_tools = << "search" >>
    /\ last_sources = [o \in ToolObjects |-> <<>>]
    /\ last_call =
           [op |-> "register_tool", name |-> "search_course_content",
            text |-> "", list |-> <<>>, raised |-> FALSE, tool |-> "search",
            held |-> <<>>]
    /\ latest = [n \in ToolNames |->
                    IF n = "search_course_content" THEN "search" ELSE ""]
    /\ self_MAX_TOOL_ROUNDS = MAX_TOOL_ROUNDS
    /\ cur = 1
    /\ parked = IdleRun
    /\ unread = [r \in Queriers |-> 0]
    /\ sources = [r \in Queriers |-> <<>>]

\* The steps of a run whose tool manager is a ToolManager.
ManagedFor(Rs, NRs) ==
    \/ \E q \in Queries, h \in Histories, t \in ToolsArgs, m \in ManagerArgs :
         GenerateResponse(q, h, t, m)
    \/ SendNoToolsRequest
    \/ \E r \in NRs : ReceiveNoToolsResponse(r)
    \/ SendLoopRequest
    \/ \E r \in Rs : ReceiveLoopResponse(r)
    \/ \E o \in Outcomes, retrieved \in BOOLEAN :
         ExecuteRegisteredTool(o, retrieved)
    \/ SkipBlock
    \/ FinishRound
    \/ SendFinalRequest
    \/ \E r \in NRs : ReceiveFinalResponse(r)
    \/ ApiCallRaises

ManagedNext == ManagedFor(Responses, FewResponses)

ManagedSpec == ManagedInit /\ [][ManagedNext]_vars

\* ------------------------------------------------- RAGSystem.query
\* No call of generate_response has been made on the generator.
IdleGenerator ==
    /\ pc = "idle"
    /\ base_params = [model |-> "claude-model", temperature |-> 0,
                      max_tokens |-> 800]
    /\ query = ""
    /\ conversation_history = NoneStr
    /\ system_content = SYSTEM_PROMPT
    /\ tools = None
    /\ tool_manager = "None"
    /\ messages = <<>>
    /\ current_round = 0
    /\ current_messages = <<>>
    /\ response = NoResponse
    /\ block_idx = 0
    /\ tool_results = <<>>
    /\ inflight = NoRequest
    /\ sent = <<>>
    /\ requests = <<>>
    /\ received = <<>>
    /\ executed = <<>>
    /\ nexec = 0
    /\ nraised = 0
    /\ finished = <<>>
    /\ result = NoResult

\* A RAGSystem after construction: the search tool and the outline tool
\* are registered, in that order.
QueryInit ==
    /\ IdleGenerator
    /\ manager_tools = << "search", "outline" >>
    /\ last_sources = [o \in ToolObjects |-> <<>>]
    /\ last_call =
           [op |-> "register_tool", name |-> "get_course_outline",
            text |-> "", list |-> <<>>, raised |-> FALSE, tool |-> "outline",
            held |-> << 0 >>]
    /\ latest = [n \in ToolNames |->
                    IF n = "search_course_content" THEN "search"
                    ELSE IF n = "get_course_outline" THEN "outline" ELSE ""]
    /\ self_MAX_TOOL_ROUNDS = MAX_TOOL_ROUNDS
    /\ cur = 1
    /\ parked = IdleRun
    /\ unread = [r \in Queriers |-> 0]
    /\ sources = [r \in Queriers |-> <<>>]

\* query calls generate_response with the definitions of the registered
\* tools and the tool manager.
QueryCallsGenerator(q) ==
    GenerateResponse(q, NoneStr, Some(GetToolDefinitions), "manager")

\* generate_response has returned: sources = get_last_sources().
QueryReadsSources ==
    /\ pc = "done"
    /\ pc' = "read"
    /\ sources' = [sources EXCEPT ![cur] = GetLastSources]
    /\ last_call' = Call("get_last_sources", "", "", GetLastSources, FALSE, "")
    /\ UNCHANGED << manager_tools, last_sources, latest, cur, parked, unread,
                    instance, finished, args, current_round,
                    current_messages, response, block_idx, tool_results,
                    inflight, sent, requests, received, executed, nexec,
                    nraised, result >>

\* Then reset_sources(), and query returns the response and the sources.
QueryResetsSources ==
    /\ pc = "read"
    /\ pc' = "returned"
    /\ last_sources' = SourcesAfterReset
    /\ unread' = [r \in Queriers |-> 0]
    /\ last_call' = Call("reset_sources", "", "", <<>>, FALSE, "")
    /\ UNCHANGED << manager_tools, latest, cur, parked, sources,
                    instance, finished, args, current_round,
                    current_messages, response, block_idx, tool_results,
                    inflight, sent, requests, received, executed, nexec,
                    nraised, result >>

\* The next query is asked, after query returned or after the exception of
\* the LLM call left it, which it does before sources are read and reset.
NextQuery ==
    /\ pc \in { "returned", "error" }
    /\ Len(finished) < MaxCalls - 1
    /\ pc' = "idle"
    /\ finished' = Append(finished, Len(requests))
    /\ requests' = <<>>
    /\ received' = <<>>
    /\ nexec' = 0
    /\ nraised' = 0
    /\ response' = NoResponse
    /\ result' = NoResult
    /\ sources' = [sources EXCEPT ![cur] = <<>>]
    /\ UNCHANGED << manager_tools, last_sources, last_call, latest, cur,
                    parked, unread, instance, args, current_round,
                    current_messages, block_idx, tool_results, inflight,
                    sent, executed >>

\* Queries handled one after the other by one RAGSystem.
QueryNext ==
    \/ \E q \in Queries : QueryCallsGenerator(q)
    \/ SendLoopRequest
    \/ \E r \in FewResponses : ReceiveLoopResponse(r)
    \/ \E o \in Outcomes, retrieved \in BOOLEAN :
         ExecuteRegisteredTool(o, retrieved)
    \/ SkipBlock
    \/ FinishRound
    \/ SendFinalRequest
    \/ \E r \in FewResponses : ReceiveFinalResponse(r)
    \/ ApiCallRaises
    \/ QueryReadsSources
    \/ QueryResetsSources
    \/ NextQuery

QuerySpec == QueryInit /\ [][QueryNext]_vars

\* ------------------------------------------------ two queries at a time
\* The query text of each of the two queries.
QueryOf(r) == IF r = 1 THEN "q" ELSE "r"

\* The blocks the LLM answers each query with: its own text, and a
\* tool_use block with an identifier of its own.
BlocksFor(r) ==
    IF r = 1
    THEN { b \in TextBlocks : b.text = "a" }
         \cup { b \in ToolUseBlocks : b.id = "id1" }
    ELSE { b \in TextBlocks : b.text = "b" }
         \cup { b \in ToolUseBlocks : b.id = "id2" }

\* The responses to the requests of a query: a tool request, a tool request
\* after a text, a text that ends the turn.
ResponsesTo(r) ==
    LET text == CHOOSE b \in BlocksFor(r) : b.type = "text"
        use == CHOOSE b \in BlocksFor(r) : b.type = "tool_use" IN
    { [stop_reason |-> "tool_use", content |-> << use >>],
      [stop_reason |-> "tool_use", content |-> << text, use >>],
      [stop_reason |-> "end_turn", content |-> << text >>] }

\* The locals of the call of generate_response that is moving.
RunState ==
    [pc |-> pc, query |-> query, conversation_history |-> conversation_history,
     system_content |-> system_content, tools |-> tools,
     tool_manager |-> tool_manager, messages |-> messages,
     current_round |-> current_round, current_messages |-> current_messages,
     response |-> response, block_idx |-> block_idx,
     tool_results |-> tool_results, inflight |-> inflight, sent |-> sent,
     requests |-> requests, received |-> received, executed |-> executed,
     nexec |-> nexec, nraised |-> nraised, result |-> result]

\* The other query moves on, current_messages being kept on the generator
\* and not in the call.
Switch_SharesMessages ==
    /\ cur' = 3 - cur
    /\ parked' = RunState
    /\ pc' = parked.pc
    /\ query' = parked.query
    /\ conversation_history' = parked.conversation_history
    /\ system_content' = parked.system_content
    /\ tools' = parked.tools
    /\ tool_manager' = parked.tool_manager
    /\ messages' = parked.messages
    /\ current_round' = parked.current_round
    /\ response' = parked.response
    /\ block_idx' = parked.block_idx
    /\ tool_results' = parked.tool_results
    /\ inflight' = parked.inflight
    /\ sent' = parked.sent
    /\ requests' = parked.requests
    /\ received' = parked.received
    /\ executed' = parked.executed
    /\ nexec' = parked.nexec
    /\ nraised' = parked.nraised
    /\ result' = parked.result
    /\ UNCHANGED << current_messages, instance, finished, manager_tools,
                    last_sources, last_call, latest, unread, sources >>

\* The other query moves on: every call of generate_response has its own
\* arguments and locals, the generator and the tool manager are shared.
Switch ==
    /\ cur' = 3 - cur
    /\ parked' = RunState
    /\ pc' = parked.pc
    /\ query' = parked.query
    /\ conversation_history' = parked.conversation_history
    /\ system_content' = parked.system_content
    /\ tools' = parked.tools
    /\ tool_manager' = parked.tool_manager
    /\ messages' = parked.messages
    /\ current_round' = parked.current_round
    /\ current_messages' = parked.current_messages
    /\ response' = parked.response
    /\ block_idx' = parked.block_idx
    /\ tool_results' = parked.tool_results
    /\ inflight' = parked.inflight
    /\ sent' = parked.sent
    /\ requests' = parked.requests
    /\ received' = parked.received
    /\ executed' = parked.executed
    /\ nexec' = parked.nexec
    /\ nraised' = parked.nraised
    /\ result' = parked.result
    /\ UNCHANGED << instance, finished, manager_tools, last_sources,
                    last_call, latest, unread, sources >>

\* Two queries handled at the same time by one RAGSystem, in any
\* interleaving of their steps.
ConcNext ==
    \/ QueryCallsGenerator(QueryOf(cur))
    \/ SendLoopRequest
    \/ \E r \in ResponsesTo(cur) : ReceiveLoopResponse(r)
    \/ \E o \in Outcomes, retrieved \in BOOLEAN :
         ExecuteRegisteredTool(o, retrieved)
    \/ SkipBlock
    \/ FinishRound
    \/ SendFinalRequest
    \/ \E r \in ResponsesTo(cur) : ReceiveFinalResponse(r)
    \/ ApiCallRaises
    \/ QueryReadsSources
    \/ QueryResetsSources
    \/ Switch

ConcSpec == QueryInit /\ [][ConcNext]_vars

\* ------------------------------------------- calls on the tool manager
register_tool(o) ==
    /\ manager_tools' = ToolsAfterRegister(o)
    /\ latest' = [latest EXCEPT ![NameOf(o)] = o]
    /\ last_call' = Call("register_tool", NameOf(o), "", <<>>, FALSE, o)
    /\ UNCHANGED << last_sources, callers, inside >>

\* A direct call of execute_tool: the tool's text, the error text for an
\* unknown name, or the tool's exception.
execute_tool(name, outcome, retrieved) ==
    /\ HasRoom(name, outcome, retrieved)
    /\ last_sources' = SourcesAfterExecute(name, outcome, retrieved)
    /\ LET got == ManagerOutcome(name, outcome) IN
       last_call' =
           Call("execute_tool", name,
                IF got.kind = "ok" THEN got.text ELSE got.msg, <<>>,
                got.kind = "raise",
                IF IsRegistered(name) THEN ToolFor(name) ELSE "")
    /\ UNCHANGED << manager_tools, latest, callers, inside >>

get_tool_definitions ==
    /\ last_call' =
           Call("get_tool_definitions", "", "", GetToolDefinitions, FALSE, "")
    /\ UNCHANGED << manager_tools, last_sources, latest, callers, inside >>

get_last_sources ==
    /\ last_call' = Call("get_last_sources", "", "", GetLastSources, FALSE, "")
    /\ UNCHANGED << manager_tools, last_sources, latest, callers, inside >>

reset_sources ==
    /\ last_sources' = SourcesAfterReset
    /\ last_call' = Call("reset_sources", "", "", <<>>, FALSE, "")
    /\ UNCHANGED << manager_tools, latest, callers, inside >>

\* Any sequence of calls on one tool manager.
RegistryNext ==
    \/ \E o \in ToolObjects : register_tool(o)
    \/ \E name \in ToolNames, outcome \in Outcomes, retrieved \in BOOLEAN :
         execute_tool(name, outcome, retrieved)
    \/ get_tool_definitions
    \/ get_last_sources
    \/ reset_sources

RegistrySpec == Init /\ [][RegistryNext]_vars

\* _extract_text_response on its own: any response, and the function
\* applied to it.
ExtractInit ==
    /\ pc = "extract"
    /\ response \in NoToolsResponses
    /\ base_params = [model |-> "claude-model", temperature |-> 0,
                      max_tokens |-> 800]
    /\ query = ""
    /\ conversation_history = NoneStr
    /\ system_content = SYSTEM_PROMPT
    /\ tools = None
    /\ tool_manager = "None"
    /\ messages = <<>>
    /\ current_round = 0
    /\ current_messages = <<>>
    /\ block_idx = 0
    /\ tool_results = <<>>
    /\ inflight = NoRequest
    /\ sent = <<>>
    /\ requests = <<>>
    /\ received = <<>>
    /\ executed = <<>>
    /\ nexec = 0
    /\ nraised = 0
    /\ finished = <<>>
    /\ result = NoResult
    /\ manager_tools = <<>>
    /\ last_sources = [o \in ToolObjects |-> <<>>]
    /\ last_call = NoCall
    /\ latest = [n \in ToolNames |-> ""]
    /\ self_MAX_TOOL_ROUNDS = MAX_TOOL_ROUNDS
    /\ cur = 1
    /\ parked = IdleRun
    /\ unread = [r \in Queriers |-> 0]
    /\ sources = [r \in Queriers |-> <<>>]

ExtractText ==
    /\ pc = "extract"
    /\ result' = [returned |-> TRUE, text |-> _extract_text_response(response)]
    /\ pc' = "extracted"
    /\ UNCHANGED << outside, instance, finished, args, current_round,
                    current_messages, response, block_idx, tool_results,
                    inflight, sent, requests, received, executed, nexec,
                    nraised >>

ExtractNext == ExtractText

ExtractSpec == ExtractInit /\ [][ExtractNext]_vars

\* ------------------------------------------------------------ properties

\* The run had tools and a manager, and its first two responses both had
\* stop reason tool_use.
BothRoundsRequestTools ==
    /\ Truthy(tools)
    /\ tool_manager # "None"
    /\ Len(received) >= 2
    /\ received[1].stop_reason = "tool_use"
    /\ received[2].stop_reason = "tool_use"

\* C1: whatever the LLM answers and whatever the tools do, a run of
\* generate_response comes to an end (it returns, or an LLM request failed)
\* and never issues more than MAX_TOOL_ROUNDS + 1 = 3 LLM requests; a run
\* that ended without a failed request has returned a text.
C1_TerminatesWithinThreeRequests ==
    /\ <>(pc = "done" \/ pc = "error")
    /\ [](Len(requests) <= MAX_TOOL_ROUNDS + 1)
    /\ [](pc = "done" => result.returned)

\* A run that returned after the full three requests, with responses that
\* asked for tools every time.
C1_Witness ==
    /\ pc = "done"
    /\ Len(requests) = 3
    /\ Len(received) = 3
    /\ received[3].stop_reason = "tool_use"
    /\ received[3].n_tool_use = 2
    /\ result.returned

\* C2: with tools and a manager, when the round-1 and round-2 responses both
\* have stop reason tool_use, the run issues exactly 3 requests; the 3rd has
\* no tools and no tool_choice key, and the text extracted from its response
\* is what the run returns.
C2_BudgetForcesToolLessFinal ==
    BothRoundsRequestTools =>
        /\ Len(requests) <= 3
        /\ Len(requests) = 3 =>
             /\ "tools" \notin DOMAIN requests[3].params
             /\ "tool_choice" \notin DOMAIN requests[3].params
        /\ pc = "done" =>
             /\ Len(requests) = 3
             /\ Len(received) = 3
             /\ result = [returned |-> TRUE,
                          text |-> _extract_text_response(response)]

C2_Witness ==
    /\ BothRoundsRequestTools
    /\ pc = "done"
    /\ Len(requests) = 3
    /\ "tools" \in DOMAIN requests[1].params
    /\ "tools" \in DOMAIN requests[2].params
    /\ response.content = << [type |-> "tool_use", id |-> "id1",
                              name |-> "search_course_content"],
                             [type |-> "text", text |-> "a"] >>
    /\ result.text = "a"

\* C3 as stated: with both round responses requesting tools, the run makes
\* exactly 2 execute_tool calls.
C3_Original ==
    (BothRoundsRequestTools /\ pc = "done") => nexec = 2

\* C3: with both round responses requesting tools, the number of
\* execute_tool calls of the run is the number of tool_use blocks of the
\* round-1 and round-2 responses (2 when each has one); the blocks of the
\* third response are not executed.
C3_ExecutionsEqualRoundBlocks ==
    (BothRoundsRequestTools /\ pc \in {"await_final", "done", "error"}) =>
        nexec = received[1].n_tool_use + received[2].n_tool_use

C3_Witness ==
    /\ BothRoundsRequestTools
    /\ pc = "done"
    /\ received[1].n_tool_use = 1
    /\ received[2].n_tool_use = 1
    /\ received[3].n_tool_use = 2
    /\ nexec = 2

\* The identifiers of the tool_use blocks of a content list, in order.
UseIds(content) ==
    [j \in 1..Len(ToolUsesOf(content)) |-> ToolUsesOf(content)[j].id]

\* The tool_use_id values of a list of tool results, in order.
ResultIds(results) == [j \in 1..Len(results) |-> results[j].tool_use_id]

\* In a message list, every assistant message is followed by a user message
\* of tool_result entries whose identifiers are those of the assistant
\* message's tool_use blocks, in the same order.
Paired(msgs) ==
    \A i \in 1..Len(msgs) :
        msgs[i].role = "assistant" =>
            /\ i < Len(msgs)
            /\ msgs[i + 1].role = "user"
            /\ \A j \in 1..Len(msgs[i + 1].content) :
                   msgs[i + 1].content[j].type = "tool_result"
            /\ ResultIds(msgs[i + 1].content) = UseIds(msgs[i].content)

\* C4: pairing invariant.  For a tool-round response with n tool_use blocks
\* id_1..id_n, the user message right after the assistant message holds
\* exactly n tool_result entries with tool_use_id id_1..id_n in that order,
\* whether the executions succeeded or failed.
C4_PairingInvariant ==
    /\ Paired(current_messages)
    /\ \A k \in 1..Len(sent) : Paired(sent[k])

\* A response with two tool_use blocks, the first execution failing and the
\* second succeeding, paired in the next message list.
C4_Witness ==
    /\ Len(current_messages) = 3
    /\ current_messages[2].content =
         << [type |-> "tool_use", id |-> "id2", name |-> "get_course_outline"],
            [type |-> "tool_use", id |-> "id1",
             name |-> "search_course_content"] >>
    /\ current_messages[3].content[1].tool_use_id = "id2"
    /\ current_messages[3].content[1].content = "Tool execution error: boom"
    /\ current_messages[3].content[2].tool_use_id = "id1"
    /\ current_messages[3].content[2].content = "result"

\* The text execute_tool call j of the current response ended with.
OutcomeText(j) ==
    IF executed[j].outcome.kind = "ok" THEN executed[j].outcome.text
    ELSE "Tool execution error: boom"

\* The tool results the execute_tool calls made for the current response
\* stand for, in call order.
ExpectedResults ==
    [j \in 1..Len(executed) |->
        [type |-> "tool_result",
         tool_use_id |-> response.content[executed[j].idx].id,
         content |-> OutcomeText(j)]]

\* C5: the message list of request k+1 is the list of request k, unchanged,
\* followed by exactly two messages: an assistant message with response k's
\* content verbatim, then a user message with the ordered tool results for
\* response k.  The forced final request is no exception.
C5_AppendOnlyAccumulation ==
    \A k \in 1..(Len(sent) - 1) :
        LET n == Len(sent[k]) IN
        /\ Len(sent[k + 1]) = n + 2
        /\ SubSeq(sent[k + 1], 1, n) = sent[k]
        /\ sent[k + 1][n + 1].role = "assistant"
        /\ sent[k + 1][n + 2].role = "user"
        /\ (k + 1 = Len(sent) /\ pc \in {"await_loop", "await_final"}) =>
             /\ sent[k + 1][n + 1].content = response.content
             /\ sent[k + 1][n + 2].content = ExpectedResults

\* The forced final request in flight, after two tool rounds.
C5_Witness ==
    /\ pc = "await_final"
    /\ Len(sent) = 3
    /\ Len(sent[3]) = 5
    /\ Len(sent[3][5].content) = 2
    /\ Len(sent[3][3].content) = 1
    /\ sent[3][2].content # sent[3][4].content

\* The responses received so far are tool requests up to the last one, and
\* the last one ended normally.
EndedNormallyAfterToolRounds ==
    /\ Truthy(tools)
    /\ Len(received) >= 1
    /\ received[Len(received)].stop_reason # "tool_use"
    /\ \A i \in 1..(Len(received) - 1) : received[i].stop_reason = "tool_use"

\* C6: k tool-requesting rounds (0 <= k <= 2) followed by a response that
\* ends normally make k + 1 requests in all, and request i carries
\* 1 + 2*(i-1) messages.
C6_RequestCountAndLengths ==
    EndedNormallyAfterToolRounds =>
        /\ pc = "done"
        /\ Len(received) <= MAX_TOOL_ROUNDS + 1
        /\ Len(requests) = Len(received)
        /\ \A i \in 1..Len(requests) : requests[i].nmsgs = 1 + 2 * (i - 1)

C6_Witness ==
    /\ EndedNormallyAfterToolRounds
    /\ Len(received) = 3
    /\ Len(requests) = 3
    /\ requests[1].nmsgs = 1
    /\ requests[2].nmsgs = 3
    /\ requests[3].nmsgs = 5

\* C7: single-round termination.  With tools supplied, a first response
\* whose stop reason is not tool_use ends the run: one request, no
\* execute_tool call whatever blocks the response has, and the text
\* extracted from that response is returned.
C7_SingleRoundTermination ==
    (Truthy(tools) /\ Len(received) >= 1
                   /\ received[1].stop_reason # "tool_use") =>
        /\ pc = "done"
        /\ Len(requests) = 1
        /\ Len(received) = 1
        /\ nexec = 0
        /\ result = [returned |-> TRUE,
                     text |-> _extract_text_response(response)]

\* A first response that stopped for another reason than tool_use although
\* it holds tool_use blocks, with a manager at hand.
C7_Witness ==
    /\ Truthy(tools)
    /\ tool_manager = "manager"
    /\ pc = "done"
    /\ Len(received) = 1
    /\ received[1].stop_reason = "max_tokens"
    /\ received[1].n_tool_use = 1
    /\ response.content[1].type = "tool_use"
    /\ result.text = "a"

\* The text of the first block of type text of a content list, "" when
\* there is none.
FirstText(content) ==
    LET texts == { i \in 1..Len(content) : content[i].type = "text" }
    IN  IF texts = {} THEN ""
        ELSE content[CHOOSE i \in texts : \A j \in texts : i <= j].text

\* C8: the path without tools.  When tools is None or an empty list, the
\* run issues one request, without tools and without tool_choice, makes no
\* execute_tool call whatever the stop reason, the blocks and the manager
\* are, and returns the first text block of the response, "" when it has
\* none.
C8_NoToolsPath ==
    ~Truthy(tools) =>
        /\ pc \in {"idle", "notools", "await_notools", "done", "error"}
        /\ Len(requests) <= 1
        /\ \A i \in 1..Len(requests) :
               /\ "tools" \notin DOMAIN requests[i].params
               /\ "tool_choice" \notin DOMAIN requests[i].params
               /\ requests[i].nmsgs = 1
        /\ nexec = 0
        /\ pc = "done" =>
               /\ Len(requests) = 1
               /\ result = [returned |-> TRUE,
                            text |-> FirstText(response.content)]

\* An empty list of tools, a manager at hand, and a response that stopped
\* for tool_use with a tool_use block before its text.
C8_Witness ==
    /\ tools = Some(<<>>)
    /\ tool_manager = "manager"
    /\ pc = "done"
    /\ response.stop_reason = "tool_use"
    /\ Len(response.content) = 2
    /\ response.content[1].type = "tool_use"
    /\ response.content[2] = [type |-> "text", text |-> "b"]
    /\ result.text = "b"

\* The tool result of a call that raised "boom" for the block at index idx
\* of the current response.
FailureResult(idx) ==
    [type |-> "tool_result",
     tool_use_id |-> response.content[idx].id,
     content |-> "Tool execution error: boom"]

\* The execute_tool calls made for the current response that raised.
Raised == { j \in 1..Len(executed) : executed[j].outcome.kind = "raise" }

\* C9: containment.  An execute_tool call that raises with message m gives
\* the tool result "Tool execution error: " followed by m, with the
\* identifier of its block; the exception does not leave generate_response
\* (a run ends in error only with an LLM request unanswered), and the next
\* LLM request carries that result in its last message.
C9_ToolFailureContained ==
    /\ \A j \in Raised :
           /\ j <= Len(tool_results)
           /\ tool_results[j] = FailureResult(executed[j].idx)
    /\ pc = "error" => Len(requests) = Len(received) + 1
    /\ (pc \in {"await_loop", "await_final"} /\ Raised # {}) =>
           /\ inflight.messages[Len(inflight.messages)].role = "user"
           /\ \A j \in Raised :
                  inflight.messages[Len(inflight.messages)].content[j]
                      = FailureResult(executed[j].idx)

\* A failed call in round 1, and the request of round 2 in flight.
C9_Witness ==
    /\ pc = "await_loop"
    /\ Len(requests) = 2
    /\ Raised = {1}
    /\ Len(executed) = 1
    /\ inflight.messages[3].content[1].content = "Tool execution error: boom"
    /\ inflight.messages[3].content[1].tool_use_id = "id2"

\* The positions of the tool_use blocks of a content list.
ToolUseIndices(content) ==
    { i \in 1..Len(content) : content[i].type = "tool_use" }

\* How far _execute_tools has come in the current response.
Progress == IF pc = "exec" THEN block_idx ELSE Len(response.content) + 1

\* C10: a failed execution does not stop the others.  The execute_tool
\* calls made for a response are, in order and once each, its tool_use
\* blocks up to where the loop has come, whatever failed before; when the
\* round is over there is one call and one tool result per tool_use block.
C10_FailureDoesNotStopOthers ==
    pc \in {"exec", "loop", "await_loop", "await_final"} =>
        /\ \A j \in 1..(Len(executed) - 1) :
               executed[j].idx < executed[j + 1].idx
        /\ { executed[j].idx : j \in 1..Len(executed) }
               = { i \in ToolUseIndices(response.content) : i < Progress }
        /\ Len(tool_results) = Len(executed)

\* A round whose first call failed and whose second call was made.
C10_Witness ==
    /\ pc = "loop"
    /\ current_round = 1
    /\ Len(executed) = 2
    /\ executed[1].outcome.kind = "raise"
    /\ executed[2].outcome.kind = "ok"
    /\ Len(tool_results) = 2

\* The positions where an LLM request is in flight.
AwaitStates == { "await_notools", "await_loop", "await_final" }

\* C11: a run ends in error only because one of its LLM requests failed.
\* The run enters the error outcome from a request in flight and from
\* nowhere else, whatever the tools did; a run none of whose requests fails
\* returns a text, possibly "".
C11_OnlyLlmFailureEndsInError ==
    /\ [][(pc' = "error" /\ pc # "error") =>
             (pc \in AwaitStates /\ inflight # NoRequest)]_vars
    /\ [](pc = "done" => (result.returned /\ result.text \in {"", "a"}))
    /\ <>(pc = "error" \/ (pc = "done" /\ result.returned))

\* A run that returned "" although both of its tool calls raised.
C11_Witness ==
    /\ pc = "done"
    /\ nexec = 2
    /\ nraised = 2
    /\ Len(requests) = 3
    /\ result = [returned |-> TRUE, text |-> ""]

\* C12: a failed LLM request is not contained.  A request that got no
\* response and is no longer in flight means the run ended in error, and
\* the other way round; the run then returned nothing, holds no error text
\* in place of a result, and takes no further step: no request, no tool
\* execution.
C12_LlmFailurePropagates ==
    /\ Len(requests) - Len(received) \in {0, 1}
    /\ (Len(requests) = Len(received) + 1 /\ inflight = NoRequest)
           <=> pc = "error"
    /\ pc = "error" =>
           /\ result = NoResult
           /\ tool_results = <<>>
           /\ ~ENABLED Next

\* The forced final request failed, after two rounds of tool executions.
C12_Witness ==
    /\ pc = "error"
    /\ Len(requests) = 3
    /\ Len(received) = 2
    /\ nexec = 2
    /\ result = NoResult

\* C13: no-registry degradation.  With tools but no tool_manager, a first
\* response that stops for tool_use ends the run: one request, no
\* execute_tool call, no error, and the first text block of that response
\* ("" when it has none) is returned.
C13_NoRegistryDegradation ==
    (Truthy(tools) /\ tool_manager = "None" /\ Len(received) >= 1
                   /\ received[1].stop_reason = "tool_use") =>
        /\ pc = "done"
        /\ Len(requests) = 1
        /\ Len(received) = 1
        /\ nexec = 0
        /\ result = [returned |-> TRUE, text |-> FirstText(response.content)]

C13_Witness ==
    /\ Truthy(tools)
    /\ tool_manager = "None"
    /\ pc = "done"
    /\ response.stop_reason = "tool_use"
    /\ response.content =
         << [type |-> "tool_use", id |-> "id1",
             name |-> "search_course_content"],
            [type |-> "text", text |-> "a"] >>
    /\ result.text = "a"

\* C14: the last permitted round.  When round 1 requests tools and the
\* round-2 response does not, the run ends there: 2 requests, both with
\* tools, and the round-2 text returned.  A third request is made only when
\* the round-2 response requests tools as well.
C14_LastRoundEndingNormally ==
    /\ (Truthy(tools) /\ Len(received) >= 2
                      /\ received[1].stop_reason = "tool_use"
                      /\ received[2].stop_reason # "tool_use") =>
           /\ pc = "done"
           /\ Len(requests) = 2
           /\ Len(received) = 2
           /\ "tools" \in DOMAIN requests[1].params
           /\ "tools" \in DOMAIN requests[2].params
           /\ result = [returned |-> TRUE,
                        text |-> _extract_text_response(response)]
    /\ Len(requests) = 3 =>
           /\ Len(received) >= 2
           /\ received[1].stop_reason = "tool_use"
           /\ received[2].stop_reason = "tool_use"

C14_Witness ==
    /\ Truthy(tools)
    /\ pc = "done"
    /\ Len(requests) = 2
    /\ received[1].stop_reason = "tool_use"
    /\ received[1].n_tool_use = 1
    /\ received[2].stop_reason = "end_turn"
    /\ nexec = 1
    /\ result.text = "a"

\* The requests of the run made without tools.
ToolLessRequests ==
    { i \in 1..Len(requests) : "tools" \notin DOMAIN requests[i].params }

\* C15: the forced final request is made once and ends the run.  Whatever
\* its response holds, no execute_tool call is made for it, no request
\* follows, and its first text block ("" when it has none) is returned.
C15_ForcedFinalIsTerminal ==
    Truthy(tools) =>
        /\ Len(requests) <= MAX_TOOL_ROUNDS + 1
        /\ Cardinality(ToolLessRequests) <= 1
        /\ Len(received) = MAX_TOOL_ROUNDS + 1 =>
               /\ pc = "done"
               /\ Len(requests) = MAX_TOOL_ROUNDS + 1
               /\ nexec = received[1].n_tool_use + received[2].n_tool_use
               /\ result = [returned |-> TRUE,
                            text |-> FirstText(response.content)]

\* A forced final response that stops for tool_use and holds nothing but
\* tool_use blocks.
C15_Witness ==
    /\ Truthy(tools)
    /\ pc = "done"
    /\ Len(received) = 3
    /\ received[3].stop_reason = "tool_use"
    /\ received[3].n_tool_use = 2
    /\ Len(response.content) = 2
    /\ nexec = 1
    /\ result = [returned |-> TRUE, text |-> ""]

\* C16: in a run with tools, every request made inside the round loop
\* carries the tool definitions as supplied and tool_choice = auto, and the
\* request made after the loop carries neither: a request is without tools
\* exactly when it is the forced final one.
C16_LoopRequestsCarryTools ==
    Truthy(tools) =>
        /\ \A i \in 1..Len(requests) :
               IF i <= MAX_TOOL_ROUNDS
               THEN /\ "tools" \in DOMAIN requests[i].params
                    /\ requests[i].params.tools = tools.val
                    /\ "tool_choice" \in DOMAIN requests[i].params
                    /\ requests[i].params.tool_choice = [type |-> "auto"]
               ELSE /\ "tools" \notin DOMAIN requests[i].params
                    /\ "tool_choice" \notin DOMAIN requests[i].params
        /\ pc = "await_loop" => "tools" \in DOMAIN inflight
        /\ pc = "await_final" =>
               /\ "tools" \notin DOMAIN inflight
               /\ ToolLessRequests = {Len(requests)}

\* The second request of the loop in flight, with the tools.
C16_Witness ==
    /\ pc = "await_loop"
    /\ Len(requests) = 2
    /\ requests[2].params.tools = ToolDefs
    /\ requests[2].params.tool_choice = [type |-> "auto"]
    /\ requests[2].nmsgs = 3

\* C17: text extraction.  The extracted text of a response is the text of
\* its first block of type text in block order, the tool_use blocks before
\* it being skipped; a response without a text block, an empty one
\* included, gives "".  Every response gives a result.
C17_ExtractsFirstTextBlock ==
    pc = "extracted" =>
        LET c == response.content IN
        /\ result.returned
        /\ (\A i \in 1..Len(c) : c[i].type # "text") => result.text = ""
        /\ \A i \in 1..Len(c) :
               (c[i].type = "text" /\ \A j \in 1..(i - 1) : c[j].type # "text")
                   => result.text = c[i].text

\* A text block behind a tool_use block.
C17_Witness ==
    /\ pc = "extracted"
    /\ response.content =
         << [type |-> "tool_use", id |-> "id2", name |-> "get_course_outline"],
            [type |-> "text", text |-> "b"] >>
    /\ result = [returned |-> TRUE, text |-> "b"]

\* The number of tool_use blocks of the first n responses of the run.
RECURSIVE ToolUsesUpTo(_)
ToolUsesUpTo(n) ==
    IF n = 0 THEN 0 ELSE received[n].n_tool_use + ToolUsesUpTo(n - 1)

\* C18: executions are sequential and ordered.  The execute_tool calls of a
\* round follow the order of the blocks of the response; no LLM request is
\* in flight while blocks are executed; and when request k+1 is issued
\* every tool_use block of response k, and of the responses before it, has
\* been executed and request k has been answered.
C18_SequentialOrderedExecution ==
    /\ \A j \in 1..(Len(executed) - 1) :
           executed[j].idx < executed[j + 1].idx
    /\ pc = "exec" =>
           /\ inflight = NoRequest
           /\ Len(requests) = Len(received)
    /\ inflight # NoRequest =>
           /\ pc \in AwaitStates
           /\ Len(requests) = Len(received) + 1
           /\ Len(executed) = Cardinality(ToolUseIndices(response.content))
           /\ nexec = ToolUsesUpTo(Len(received))

\* The third request in flight, the two calls of response 2 made in order.
C18_Witness ==
    /\ pc = "await_final"
    /\ Len(requests) = 3
    /\ Len(executed) = 2
    /\ executed[1].idx = 1
    /\ executed[2].idx = 2
    /\ received[1].n_tool_use = 1
    /\ nexec = 3

\* The system string a run must use: the prompt alone, or the prompt
\* followed by the history when there is a non-empty one.
ExpectedSystem ==
    IF conversation_history = SomeStr("h")
    THEN "SYSTEM_PROMPT\n\nPrevious conversation:\nh"
    ELSE "SYSTEM_PROMPT"

\* C19: the conversation history never enters the message list.  Whether
\* the history is absent, empty or present, the first request carries one
\* message, a user message with the query as given (the empty query too),
\* and every later list still starts with it; a non-empty history shows in
\* the system string only, which is the same on every request of the run.
C19_HistoryOnlyInSystem ==
    /\ \A k \in 1..Len(sent) :
           /\ Len(sent[k]) = 1 + 2 * (k - 1)
           /\ sent[k][1] = [role |-> "user", content |-> query]
    /\ \A i \in 1..Len(requests) :
           /\ requests[i].nmsgs = 1 + 2 * (i - 1)
           /\ requests[i].params.system = ExpectedSystem

\* An empty query with a history, at the third request.
C19_Witness ==
    /\ pc = "await_final"
    /\ query = ""
    /\ conversation_history = SomeStr("h")
    /\ Len(sent) = 3
    /\ sent[1] = << [role |-> "user", content |-> ""] >>
    /\ requests[1].params.system = "SYSTEM_PROMPT\n\nPrevious conversation:\nh"
    /\ requests[3].params.system = requests[1].params.system

\* C20: no message state persists across queries.  In every call made on
\* the instance, whatever the number of requests and tool rounds of the
\* calls before it, the first request carries exactly one message, the
\* user message holding the query of that call.
C20_FirstRequestOfEachCall ==
    /\ Len(requests) >= 1 =>
           /\ requests[1].nmsgs = 1
           /\ requests[1].params.system = SYSTEM_PROMPT
    /\ Len(sent) >= 1 =>
           sent[1] = << [role |-> "user", content |-> query] >>
    /\ \A c \in 1..Len(finished) : finished[c] \in 1..(MAX_TOOL_ROUNDS + 1)

\* The first request of a call that follows a call of two tool rounds.
C20_Witness ==
    /\ Len(finished) >= 1
    /\ finished[Len(finished)] = MAX_TOOL_ROUNDS + 1
    /\ pc = "await_loop"
    /\ Len(sent) = 1
    /\ requests[1].nmsgs = 1
    /\ sent[1] = << [role |-> "user", content |-> ""] >>

\* Response i of the run started a tool round: it came within the round
\* budget of a run with tools and a tool manager, and its stop reason is
\* tool_use.
StartedRound(i) ==
    /\ i <= MAX_TOOL_ROUNDS
    /\ Truthy(tools)
    /\ tool_manager # "None"
    /\ received[i].stop_reason = "tool_use"

\* The tool_use blocks of the first n responses that started a tool round.
RECURSIVE RoundBlocksUpTo(_)
RoundBlocksUpTo(n) ==
    IF n = 0 THEN 0
    ELSE (IF StartedRound(n) THEN received[n].n_tool_use ELSE 0)
         + RoundBlocksUpTo(n - 1)

\* C29: the number of tool executions of a run is the number of tool_use
\* blocks of the responses that started a tool round; the tool_use blocks
\* of a response with another stop reason, of a response received without
\* a tool manager and of the forced final response are not executed.
\* While a response is being executed, its blocks executed so far count.
C29_ExecutionsAreRoundBlocks ==
    IF pc = "exec"
    THEN nexec = RoundBlocksUpTo(Len(received) - 1) + Len(executed)
    ELSE nexec = RoundBlocksUpTo(Len(received))

\* One response with two tool_use blocks, executed in a single round, and
\* then a response that ended normally with a tool_use block left alone.
C29_Witness ==
    /\ pc = "done"
    /\ Len(received) = 2
    /\ received[1].stop_reason = "tool_use"
    /\ received[1].n_tool_use = 2
    /\ received[2].stop_reason = "end_turn"
    /\ received[2].n_tool_use = 1
    /\ nexec = 2

\* C30: role alternation.  At every LLM request the message list has odd
\* length, its roles alternate user, assistant, user, ..., it starts with
\* the user message holding the query and ends with a user message, and
\* every assistant message is followed by a user message of tool results.
C30_RoleAlternation ==
    \A k \in 1..Len(sent) :
        LET msgs == sent[k] IN
        /\ Len(msgs) % 2 = 1
        /\ msgs[1] = [role |-> "user", content |-> query]
        /\ msgs[Len(msgs)].role = "user"
        /\ \A i \in 1..Len(msgs) :
               msgs[i].role = (IF i % 2 = 1 THEN "user" ELSE "assistant")
        /\ \A i \in 1..(Len(msgs) - 1) :
               msgs[i].role = "assistant" =>
                   /\ msgs[i + 1].role = "user"
                   /\ \A j \in 1..Len(msgs[i + 1].content) :
                          msgs[i + 1].content[j].type = "tool_result"

\* The forced final request: five messages, two of them the assistant's.
C30_Witness ==
    /\ pc = "await_final"
    /\ Len(sent) = 3
    /\ Len(sent[3]) = 5
    /\ sent[3][2].role = "assistant"
    /\ sent[3][4].role = "assistant"
    /\ sent[3][5].role = "user"
    /\ Len(sent[3][5].content) = 1

\* The text execute_tool must give for a name that is not registered.
NotFoundText(name) ==
    CASE name = "unknown_tool" -> "Tool 'unknown_tool' not found"
      [] name = "get_course_outline" -> "Tool 'get_course_outline' not found"
      [] name = "search_course_content" ->
             "Tool 'search_course_content' not found"

\* C24: execute_tool on a name that is not registered returns the text
\* "Tool '<name>' not found" with the name put in, does not raise, and
\* leaves the registered tools and their records as they were, after any
\* sequence of calls.
C24_UnknownNameGivesText ==
    /\ [](  (last_call.op = "execute_tool" /\ ~IsRegistered(last_call.name))
             => /\ last_call.text = NotFoundText(last_call.name)
                /\ ~last_call.raised
                /\ last_call.tool = "")
    /\ [][ (last_call'.op = "execute_tool" /\ ~IsRegistered(last_call'.name))
            => /\ manager_tools' = manager_tools
               /\ last_sources' = last_sources ]_vars

\* A name that is not registered is asked for while the search tool holds
\* records, and the records stay.
C24_Witness ==
    /\ last_call.op = "execute_tool"
    /\ last_call.name = "get_course_outline"
    /\ last_call.text = "Tool 'get_course_outline' not found"
    /\ manager_tools = << "search" >>
    /\ last_sources["search"] = << SourceOf("search"), SourceOf("search") >>

\* C25: after reset_sources every registered tool's list is empty, however
\* many tools are registered and whatever was executed before, and
\* get_last_sources called next returns the empty list.
C25_ResetClearsEveryTool ==
    /\ [](  last_call.op = "reset_sources"
             => \A i \in 1..Len(manager_tools) :
                    last_sources[manager_tools[i]] = <<>>)
    /\ [][ (last_call.op = "reset_sources"
             /\ last_call'.op = "get_last_sources")
            => last_call'.list = <<>> ]_vars

\* A reset made while two registered tools held records, the second one
\* more than the first.
C25_Witness ==
    /\ last_call.op = "reset_sources"
    /\ Len(manager_tools) = 2
    /\ last_call.held = << 1, 2 >>
    /\ last_sources[manager_tools[1]] = <<>>
    /\ last_sources[manager_tools[2]] = <<>>

\* The place of a registered tool object in the order of registration.
PlaceOf(o) == CHOOSE i \in 1..Len(manager_tools) : manager_tools[i] = o

\* C26: get_last_sources returns the records of all the registered tools,
\* those of a tool registered earlier before those of a tool registered
\* later: every record returned is a registered tool's, each tool's
\* records are all there, and they come in the order of registration.
C26_SourcesInRegistrationOrder ==
    last_call.op = "get_last_sources" =>
        LET l == last_call.list IN
        /\ \A a \in 1..Len(l) :
               \E i \in 1..Len(manager_tools) : manager_tools[i] = l[a].title
        /\ \A i \in 1..Len(manager_tools) :
               Cardinality({ a \in 1..Len(l) : l[a].title = manager_tools[i] })
                   = Len(last_sources[manager_tools[i]])
        /\ \A a, b \in 1..Len(l) :
               a < b => PlaceOf(l[a].title) <= PlaceOf(l[b].title)

\* The outline tool registered before the search tool, both with records.
C26_Witness ==
    /\ last_call.op = "get_last_sources"
    /\ manager_tools = << "outline", "search" >>
    /\ last_call.list =
           << SourceOf("outline"), SourceOf("search"), SourceOf("search") >>

\* C27: a registration under a name already taken replaces the earlier
\* tool without an error.  After any sequence of registrations the dict
\* holds each name once, with the tool object registered last under it;
\* execute_tool runs that object; get_tool_definitions holds one
\* definition for each name.
C27_LastRegistrationWins ==
    /\ \A i, j \in 1..Len(manager_tools) :
           i # j => NameOf(manager_tools[i]) # NameOf(manager_tools[j])
    /\ \A n \in ToolNames :
           IF latest[n] = ""
           THEN \A i \in 1..Len(manager_tools) : NameOf(manager_tools[i]) # n
           ELSE \E i \in 1..Len(manager_tools) : manager_tools[i] = latest[n]
    /\ last_call.op = "register_tool" => ~last_call.raised
    /\ (last_call.op = "execute_tool" /\ latest[last_call.name] # "")
           => last_call.tool = latest[last_call.name]
    /\ last_call.op = "get_tool_definitions" =>
           LET l == last_call.list IN
           /\ \A a, b \in 1..Len(l) : a # b => l[a].name # l[b].name
           /\ { l[a].name : a \in 1..Len(l) }
                  = { n \in ToolNames : latest[n] # "" }

\* The second search tool runs under the name the first one had: the first
\* one still holds the record of its own execution.
C27_Witness ==
    /\ last_call.op = "execute_tool"
    /\ last_call.name = "search_course_content"
    /\ last_call.tool = "search_again"
    /\ manager_tools = << "search_again", "outline" >>
    /\ last_sources["search"] = << SourceOf("search") >>

\* The execute_tool calls made for the current response whose block names
\* a tool that is not registered.
Unknown ==
    { j \in 1..Len(executed) :
        ~IsRegistered(response.content[executed[j].idx].name) }

\* The tool result for the block at index idx of the current response when
\* its tool is not registered.
NotFoundResult(idx) ==
    [type |-> "tool_result",
     tool_use_id |-> response.content[idx].id,
     content |-> NotFoundText(response.content[idx].name)]

\* C21: a tool_use block naming a tool that is not registered is handled
\* like a contained failure.  The manager returns the error text and does
\* not raise; the loop puts that text in a tool result with the identifier
\* of the block; tool_use blocks and tool results stay paired; and the
\* next LLM request carries that result in its last message.
C21_UnknownToolContained ==
    /\ \A j \in Unknown :
           /\ executed[j].outcome.kind = "ok"
           /\ j <= Len(tool_results)
           /\ tool_results[j] = NotFoundResult(executed[j].idx)
    /\ pc = "error" => Len(requests) = Len(received) + 1
    /\ Paired(current_messages)
    /\ \A k \in 1..Len(sent) : Paired(sent[k])
    /\ (pc \in {"await_loop", "await_final"} /\ Unknown # {}) =>
           /\ inflight.messages[Len(inflight.messages)].role = "user"
           /\ \A j \in Unknown :
                  inflight.messages[Len(inflight.messages)].content[j]
                      = NotFoundResult(executed[j].idx)

\* The outline tool is asked for and is not registered, the search tool is
\* asked for in the same response, and the request of round 2 is in flight.
C21_Witness ==
    /\ pc = "await_loop"
    /\ Len(requests) = 2
    /\ Unknown = {1}
    /\ Len(executed) = 2
    /\ inflight.messages[3].content[1] =
           [type |-> "tool_result", tool_use_id |-> "id2",
            content |-> "Tool 'get_course_outline' not found"]
    /\ inflight.messages[3].content[2].tool_use_id = "id1"
    /\ inflight.messages[3].content[2].content = "result"

\* The registered tools hold no record.
NoRecordHeld ==
    \A i \in 1..Len(manager_tools) : last_sources[manager_tools[i]] = <<>>

OwnList(r, msgs) ==
    /\ msgs[1] = [role |-> "user", content |-> QueryOf(r)]
    /\ \A i \in 2..Len(msgs) :
           IF i % 2 = 0
           THEN /\ msgs[i].role = "assistant"
                /\ \A j \in 1..Len(msgs[i].content) :
                       msgs[i].content[j] \in BlocksFor(r)
           ELSE /\ msgs[i].role = "user"
                /\ \A j \in 1..Len(msgs[i].content) :
                       \E b \in BlocksFor(r) :
                           /\ b.type = "tool_use"
                           /\ msgs[i].content[j].tool_use_id = b.id

\* The run of query r is the run of a query that runs alone: at most three
\* requests, request k with the 1 + 2 (k - 1) messages of the rounds before
\* it, every one of them its own, one response for every request but the
\* one in flight, and a tool request before every request but the first.
OwnRun(r, run) ==
    /\ Len(run.requests) <= MAX_TOOL_ROUNDS + 1
    /\ \A i \in 1..Len(run.requests) :
           run.requests[i].nmsgs = 1 + 2 * (i - 1)
    /\ \A k \in 1..Len(run.sent) :
           /\ Len(run.sent[k]) = 1 + 2 * (k - 1)
           /\ OwnList(r, run.sent[k])
    /\ run.pc \in {"loop", "exec", "await_loop", "await_final"} =>
           /\ OwnList(r, run.current_messages)
           /\ Len(run.current_messages) = 1 + 2 * run.current_round
    /\ Len(run.requests) - Len(run.received) \in {0, 1}
    /\ \A i \in 2..Len(run.requests) :
           run.received[i - 1].stop_reason = "tool_use"

\* C22: two queries handled at the same time are independent in their
\* message state.  In every interleaving of the two runs each request of a
\* run carries that run's query, that run's assistant responses and that
\* run's tool results only, and each run issues the requests, with the
\* message list lengths, it issues when it runs alone.
C22_RunsKeepTheirMessages ==
    /\ OwnRun(cur, RunState)
    /\ OwnRun(3 - cur, parked)

\* Both runs have the request of their second round in flight.
C22_Witness ==
    /\ pc = "await_loop"
    /\ parked.pc = "await_loop"
    /\ Len(sent) = 2
    /\ Len(parked.sent) = 2
    /\ sent[2][1].content # parked.sent[2][1].content
    /\ sent[2][3].content[1].tool_use_id
           # parked.sent[2][3].content[1].tool_use_id

\* C23: the records of a shared tool manager are not kept apart between
\* queries handled at the same time.  What a query reads when its loop has
\* returned is every record added since the last reset, by its own
\* executions and by those of the other query, and its reset empties every
\* registered tool, records of the other query that were not read included.
C23_SourcesAreShared ==
    [][ /\ (cur' = cur /\ pc = "done" /\ pc' = "read")
            => Len(sources'[cur]) = unread[1] + unread[2]
        /\ (cur' = cur /\ pc = "read" /\ pc' = "returned")
            => \A i \in 1..Len(manager_tools) :
                   last_sources'[manager_tools[i]] = <<>> ]_vars

\* The first query, whose responses ask for the search tool only, has read
\* a record of the outline tool, which an execution of the second query
\* added; the second query has not read anything yet.
C23_Witness ==
    /\ cur = 1
    /\ pc = "read"
    /\ nexec = 1
    /\ sources[1] = << SourceOf("search"), SourceOf("outline") >>
    /\ parked.pc \in {"loop", "exec", "await_loop", "await_final"}
    /\ parked.nexec = 1
    /\ sources[2] = <<>>

\* The states of a run inside _run_tool_loop.
LoopStates == { "loop", "await_loop", "exec", "await_final" }

\* The tool rounds the run has completed: the responses received so far,
\* less the one whose tools are still being executed and less the response
\* to the forced final request.
CompletedRounds ==
    Cardinality({ i \in 1..Len(received) :
                    /\ StartedRound(i)
                    /\ (pc = "exec" => i < Len(received)) })

\* The requests of the run made with tools.
ToolCarryingRequests ==
    { i \in 1..Len(requests) : "tools" \in DOMAIN requests[i].params }

\* C31: the round counter.  Inside the tool loop current_round lies between
\* 0 and MAX_TOOL_ROUNDS and is the number of completed tool rounds, the
\* current message list has 1 + 2 * current_round messages and at most
\* current_round + 1 requests with tools were issued; the counter never
\* decreases inside the loop and rises, by exactly one, in the step that
\* completes a tool round and in no other.
C31_RoundCounterInvariant ==
    /\ [](pc \in LoopStates =>
            /\ current_round \in 0..MAX_TOOL_ROUNDS
            /\ current_round = CompletedRounds
            /\ Len(current_messages) = 1 + 2 * current_round
            /\ Cardinality(ToolCarryingRequests) <= current_round + 1)
    /\ [][(pc \in LoopStates /\ pc' \in LoopStates) =>
            IF pc = "exec" /\ pc' = "loop"
            THEN current_round' = current_round + 1
            ELSE current_round' = current_round]_vars

\* The second round completed: the counter at the budget, five messages in
\* the list and two requests with tools behind.
C31_Witness ==
    /\ pc = "loop"
    /\ current_round = MAX_TOOL_ROUNDS
    /\ CompletedRounds = 2
    /\ Len(current_messages) = 5
    /\ Cardinality(ToolCarryingRequests) = 2

\* Response i of the run started a tool round and holds no tool_use block.
EmptyRound(i) ==
    /\ i \in 1..Len(received)
    /\ StartedRound(i)
    /\ received[i].n_tool_use = 0

\* Round i of the run is over: its response is not the one under execution.
RoundOver(i) == i < Len(received) \/ pc # "exec"

\* C32: a response that stops for tool_use without any tool_use block, in a
\* run with tools and a tool manager, takes one round of the budget.  No
\* tool is executed for it; an assistant message and a user message with an
\* empty list of tool results are appended; the run does not end there but
\* issues the next request, with tools while the budget lasts.  Two such
\* responses in a row end in the forced request without tools: 3 requests
\* and no execution.
C32_EmptyToolUseTakesARound ==
    /\ [](\A i \in 1..Len(received) : EmptyRound(i) =>
            /\ (i = Len(received) /\ pc = "exec") =>
                   /\ tool_results = <<>>
                   /\ executed = <<>>
                   /\ current_round = i - 1
            /\ (RoundOver(i) /\ pc \in LoopStates) =>
                   /\ current_round >= i
                   /\ Len(current_messages) >= 2 * i + 1
                   /\ current_messages[2 * i].role = "assistant"
                   /\ current_messages[2 * i + 1] =
                          [role |-> "user", content |-> <<>>]
            /\ (i = Len(received)) => pc \notin { "done", "idle" }
            /\ Len(requests) > i =>
                   /\ requests[i + 1].nmsgs = 2 * i + 1
                   /\ (i + 1 \in ToolLessRequests) <=> (i = MAX_TOOL_ROUNDS)
            /\ (i = 2 /\ EmptyRound(1)) =>
                   /\ nexec = 0
                   /\ pc = "done" =>
                          /\ Len(requests) = 3
                          /\ ToolLessRequests = { 3 })
    /\ [][(pc = "exec" /\ EmptyRound(Len(received))) =>
            /\ nexec' = nexec
            /\ pc' \in { "exec", "loop" }
            /\ pc' = "loop" => current_round' = current_round + 1]_vars

\* Two responses in a row that stop for tool_use with no tool_use block,
\* and the run over after the forced request.
C32_Witness ==
    /\ pc = "done"
    /\ EmptyRound(1)
    /\ EmptyRound(2)
    /\ Len(requests) = 3
    /\ Len(received) = 3
    /\ nexec = 0
    /\ "tools" \notin DOMAIN requests[3].params

\* C33: what generate_response returns is the extracted text of the last
\* response the run received: the variable response always holds the
\* response received last, every request of a run that returned was
\* answered, and the result is the first text block of that last response,
\* "" when it has none, whatever text the responses of the earlier tool
\* rounds held.
C33_ReturnsTextOfLastResponse ==
    /\ [](pc = "done" =>
            /\ result.returned
            /\ Len(received) = Len(requests)
            /\ Len(received) >= 1
            /\ result.text = FirstText(response.content)
            /\ ~received[Len(received)].has_text => result.text = "")
    /\ [][received' # received =>
            received' = Append(received, Answered(response'))]_vars

\* A first response with a text block and a tool_use block, its tool
\* executed, then a last response without a text block: "" is returned.
C33_Witness ==
    /\ pc = "done"
    /\ Len(received) >= 2
    /\ StartedRound(1)
    /\ received[1].has_text
    /\ received[1].n_tool_use = 1
    /\ nexec >= 1
    /\ ~received[Len(received)].has_text
    /\ result = [returned |-> TRUE, text |-> ""]

\* C34: building the next message list mutates no existing list.  Inside
\* the tool loop the list handed to request k keeps its 1 + 2 * (k - 1)
\* messages however many rounds follow, and the list generate_response
\* built is still the one user message with the query.  The step that
\* completes a round gives a list two messages longer and leaves the list
\* it started from, the one handed to the last request, as it was; no step
\* inside the loop changes a list already handed to a request or the
\* initial list.
C34_BuildingNeverMutates ==
    /\ [](pc \in LoopStates =>
            /\ messages = << [role |-> "user", content |-> query] >>
            /\ \A k \in 1..Len(sent) : Len(sent[k]) = 1 + 2 * (k - 1))
    /\ [][(pc \in LoopStates /\ pc' \in LoopStates) =>
            /\ messages' = messages
            /\ Len(sent') >= Len(sent)
            /\ \A k \in 1..Len(sent) : sent'[k] = sent[k]
            /\ (pc = "exec" /\ pc' = "loop") =>
                   /\ sent'[Len(sent')] = current_messages
                   /\ Len(current_messages') = Len(current_messages) + 2
                   /\ SubSeq(current_messages', 1, Len(current_messages))
                          = current_messages]_vars

\* After the second round: the current list has five messages, the lists
\* handed to the first and to the second request still one and three.
C34_Witness ==
    /\ pc = "await_final"
    /\ Len(sent) = 3
    /\ Len(sent[1]) = 1
    /\ Len(sent[2]) = 3
    /\ Len(sent[3]) = 5
    /\ Len(current_messages) = 5
    /\ Len(messages) = 1

\* The keys a request may carry besides its messages.
RequestKeys ==
    { "model", "temperature", "max_tokens", "system", "tools", "tool_choice" }

\* C36: the base parameters.  self.base_params is the model, temperature 0
\* and max_tokens 800 given at construction and no step of any call
\* changes it; every request of every call carries these three values; a
\* request carries tools and tool_choice together or not at all, and it
\* carries them only inside the round loop of a call with tools, so the
\* forced final request and the request of a later call without tools
\* carry neither.
C36_BaseParamsFixed ==
    /\ [](/\ base_params = [model |-> "claude-model", temperature |-> 0,
                            max_tokens |-> 800]
          /\ \A i \in 1..Len(requests) :
               LET p == requests[i].params IN
               /\ DOMAIN p \subseteq RequestKeys
               /\ p.model = "claude-model"
               /\ p.temperature = 0
               /\ p.max_tokens = 800
               /\ ("tools" \in DOMAIN p) <=> ("tool_choice" \in DOMAIN p)
               /\ ("tools" \in DOMAIN p) <=>
                      (Truthy(tools) /\ i <= MAX_TOOL_ROUNDS))
    /\ [][base_params' = base_params]_vars

\* A first call that made two requests with tools and the forced one, then
\* a call without tools on the same instance: its one request carries the
\* base parameters and the system prompt and nothing else.
C36_Witness ==
    /\ finished = << 3 >>
    /\ ~Truthy(tools)
    /\ pc = "done"
    /\ Len(requests) = 1
    /\ DOMAIN requests[1].params =
           { "model", "temperature", "max_tokens", "system" }

\* A run with tools and with a tool manager.
WithToolsAndManager == Truthy(tools) /\ tool_manager # "None"

\* C35: the round budget is a parameter.  With the budget N that the
\* instance holds, any N from 0 on, a run with tools and a tool manager
\* counts at most N rounds, executes tools for none but its first N
\* responses and issues at most N + 1 requests; a request is without tools
\* exactly when it is request N + 1; a run that returned after each of its
\* in-loop responses asked for tools issued exactly N + 1 requests.  With
\* N = 0 the one request of the run is without tools and no tool is
\* executed.
C35_BudgetIsAParameter ==
    LET N == self_MAX_TOOL_ROUNDS IN
    WithToolsAndManager =>
        /\ pc \in LoopStates => current_round <= N
        /\ pc = "exec" => Len(received) <= N
        /\ Len(requests) <= N + 1
        /\ \A i \in 1..Len(requests) :
               (i \in ToolLessRequests) <=> (i = N + 1)
        /\ (/\ pc = "done"
            /\ \A i \in 1..Len(received) :
                   i <= N => received[i].stop_reason = "tool_use")
           => Len(requests) = N + 1
        /\ N = 0 =>
               /\ nexec = 0
               /\ pc # "exec"
               /\ Len(requests) <= 1

\* A budget of three rounds: three responses asked for a tool, each tool
\* was executed, and the fourth request, the only one without tools, ended
\* the run.
C35_Witness ==
    /\ self_MAX_TOOL_ROUNDS = 3
    /\ WithToolsAndManager
    /\ pc = "done"
    /\ Len(requests) = 4
    /\ ToolLessRequests = { 4 }
    /\ \A i \in 1..3 : received[i].n_tool_use = 1
    /\ nexec = 3

====
